---- MODULE Spec2Model ----
(***************************************************************************)
(* A model of the filmpro script service: the Fountain line parser, the    *)
(* scene-heading classifier, the character relationship analysis, the      *)
(* scene / character scores and the element deduplication.                 *)
(*                                                                         *)
(* Text is modelled as a sequence of lexemes ("tokens"): a token is either *)
(* one character (" ", "-", ".", "#", "(", ")", "=") or a maximal run of   *)
(* characters that the code never looks into (a word such as "KITCHEN", a  *)
(* heading prefix such as "INT.").  An optional value (Python None) is the *)
(* empty sequence, a present value x is <<x>>.                             *)
(***************************************************************************)
EXTENDS Integers, Sequences, FiniteSets, TLC

VARIABLES
    \* ScriptParserBase.extract_scene_heading called on its own
    heading_line, heading_out,
    \* FountainParser.parse: the locals of the method, the index of the next
    \* line of the loop, and whether the method has returned
    lines, i, scenes, characters, current_scene, current_character,
    current_dialogue, in_dialogue, scene_number_counter, page_number,
    parse_done,
    \* history: the indices of the lines that were taken as a character cue
    cue_lines,
    \* CharacterAnalyzer.analyze_characters: its argument, its locals, the
    \* index of the next pair of the relationship loop, and its position
    parsed_script, character_analysis, character_scene_map,
    relationship_matrix, pair_idx, ca_pc,
    \* one call of SceneAnalyzer.analyze_scene or of
    \* CharacterAnalyzer._calculate_character_importance: argument and result
    score_in, score_out,
    \* ElementExtractor._deduplicate_elements: the list passed to it (as it is
    \* now, and as it was at the call) and the lists returned so far
    elements, elements_at_call, dedup_out,
    \* _process_breakdown_background: what the job finds, the breakdown
    \* document, the job's position, the run (1: first analysis, 2: re-run),
    \* whether the run raised, the progress values the run wrote, the three
    \* collections and their content when the first run completed
    job_input, breakdown, job_pc, job_run, job_raised, progress_log,
    db_scenes, db_characters, db_elements, db_first_run,
    \* hashlib.md5 on the contents in play
    md5_of,
    \* calculate_file_hash: the files, the file being hashed, the read
    \* offset, the bytes fed to the hash so far and the digests returned
    hash_files, hash_open, hash_pos, hash_fed, hash_result,
    \* create_script: the requests, each request's position and the result
    \* of its find_one, the uploaded files on disk and the scripts collection
    upload, up_pc, up_existing, disk, db_scripts,
    \* the ElementExtractor objects of the process and the spacy.load calls
    extractors, nlp_loads,
    \* _find_scenes_for_span: the scenes' action texts, the match and the result
    span_actions, span_match, span_out,
    \* create_breakdown and analyze_script: each request's kind and position,
    \* the breakdown its find_one found, the breakdown of its job and the
    \* number of progress updates its job has made; the breakdowns collection
    rq_kind, rq_pc, rq_existing, rq_breakdown, rq_updates, breakdowns

headingVars == <<heading_line, heading_out>>
parserVars == <<lines, i, scenes, characters, current_scene, current_character,
                current_dialogue, in_dialogue, scene_number_counter, page_number,
                parse_done, cue_lines>>
analysisVars == <<parsed_script, character_analysis, character_scene_map,
                  relationship_matrix, pair_idx, ca_pc>>
scoreVars == <<score_in, score_out>>
dedupVars == <<elements, elements_at_call, dedup_out>>
jobVars == <<job_input, breakdown, job_pc, job_run, job_raised, progress_log,
             db_scenes, db_characters, db_elements, db_first_run>>
digestVars == <<md5_of>>
hashVars == <<hash_files, hash_open, hash_pos, hash_fed, hash_result>>
uploadVars == <<upload, up_pc, up_existing, disk, db_scripts>>
nlpVars == <<extractors, nlp_loads>>
spanVars == <<span_actions, span_match, span_out>>
requestVars == <<rq_kind, rq_pc, rq_existing, rq_breakdown, rq_updates, breakdowns>>
vars == <<headingVars, parserVars, analysisVars, scoreVars, dedupVars, jobVars, digestVars, hashVars, uploadVars, nlpVars, spanVars, requestVars>>
nonHeadingVars ==
    <<parserVars, analysisVars, scoreVars, dedupVars, jobVars, digestVars, hashVars, uploadVars, nlpVars, spanVars, requestVars>>
nonParserVars ==
    <<headingVars, analysisVars, scoreVars, dedupVars, jobVars, digestVars, hashVars, uploadVars, nlpVars, spanVars, requestVars>>
nonAnalysisVars ==
    <<headingVars, parserVars, scoreVars, dedupVars, jobVars, digestVars, hashVars, uploadVars, nlpVars, spanVars, requestVars>>
nonScoreVars ==
    <<headingVars, parserVars, analysisVars, dedupVars, jobVars, digestVars, hashVars, uploadVars, nlpVars, spanVars, requestVars>>
nonDedupVars ==
    <<headingVars, parserVars, analysisVars, scoreVars, jobVars, digestVars, hashVars, uploadVars, nlpVars, spanVars, requestVars>>
nonJobVars ==
    <<headingVars, parserVars, analysisVars, scoreVars, dedupVars, digestVars, hashVars, uploadVars, nlpVars, spanVars, requestVars>>
nonHashVars ==
    <<headingVars, parserVars, analysisVars, scoreVars, dedupVars, jobVars, uploadVars, nlpVars, spanVars, requestVars>>
nonUploadVars ==
    <<headingVars, parserVars, analysisVars, scoreVars, dedupVars, jobVars, digestVars, hashVars, nlpVars, spanVars, requestVars>>
nonNlpVars ==
    <<headingVars, parserVars, analysisVars, scoreVars, dedupVars, jobVars, digestVars, hashVars, uploadVars, spanVars, requestVars>>
nonSpanVars ==
    <<headingVars, parserVars, analysisVars, scoreVars, dedupVars, jobVars, digestVars, hashVars, uploadVars, nlpVars, requestVars>>
nonRequestVars ==
    <<headingVars, parserVars, analysisVars, scoreVars, dedupVars, jobVars, digestVars, hashVars, uploadVars, nlpVars, spanVars>>

None == <<>>
Some(x) == <<x>>

-----------------------------------------------------------------------------
(* str helpers *)

IsSpace(t) == t = " "

RECURSIVE LStrip(_)
LStrip(s) ==
    IF s = <<>> THEN s
    ELSE IF IsSpace(Head(s)) THEN LStrip(Tail(s)) ELSE s

RECURSIVE RStrip(_)
RStrip(s) ==
    IF s = <<>> THEN s
    ELSE IF IsSpace(s[Len(s)]) THEN RStrip(SubSeq(s, 1, Len(s) - 1)) ELSE s

\* str.strip()
Strip(s) == RStrip(LStrip(s))

\* str.startswith for a prefix that is one token
StartsWith(s, tok) == Len(s) > 0 /\ s[1] = tok

DashSep == <<" ", "-", " ">>

RECURSIVE SplitFrom(_, _, _)
SplitFrom(s, sep, cur) ==
    IF s = <<>> THEN <<cur>>
    ELSE IF Len(s) >= Len(sep) /\ SubSeq(s, 1, Len(sep)) = sep
         THEN <<cur>> \o SplitFrom(SubSeq(s, Len(sep) + 1, Len(s)), sep, <<>>)
         ELSE SplitFrom(Tail(s), sep, Append(cur, Head(s)))

\* str.split(sep): non-overlapping occurrences, left to right
Split(s, sep) == SplitFrom(s, sep, <<>>)

-----------------------------------------------------------------------------
(* ScriptParserBase.extract_scene_heading *)

\* The mutant: a line without a prefix gives three nulls.
extract_scene_heading_NullOnNoMatch(line0) ==
    LET line1 == Strip(line0)
        matched == \/ StartsWith(line1, "INT.") \/ StartsWith(line1, "EXT.")
                   \/ StartsWith(line1, "INT/EXT.") \/ StartsWith(line1, "I/E.")
        int_ext == IF StartsWith(line1, "INT.") THEN Some("INT")
                   ELSE IF StartsWith(line1, "EXT.") THEN Some("EXT")
                   ELSE Some("INT/EXT")
        line2 == Strip(Tail(line1))
        parts == Split(line2, DashSep)
    IN  IF ~matched
        THEN [int_ext |-> None, location |-> None, time_of_day |-> None]
        ELSE IF Len(parts) > 1
        THEN [int_ext |-> int_ext, location |-> Some(Strip(parts[1])),
              time_of_day |-> Some(Strip(parts[2]))]
        ELSE [int_ext |-> int_ext, location |-> Some(Strip(line2)),
              time_of_day |-> None]

extract_scene_heading(line0) ==
    LET line1 == Strip(line0)
        int_ext == IF StartsWith(line1, "INT.") THEN Some("INT")
                   ELSE IF StartsWith(line1, "EXT.") THEN Some("EXT")
                   ELSE IF StartsWith(line1, "INT/EXT.") \/ StartsWith(line1, "I/E.")
                        THEN Some("INT/EXT")
                   ELSE None
        \* line[4:] and line[line.find(".")+1:] both drop the prefix token
        line2 == IF int_ext # None THEN Strip(Tail(line1)) ELSE line1
        parts == Split(line2, DashSep)
    IN  IF Len(parts) > 1
        THEN [int_ext |-> int_ext, location |-> Some(Strip(parts[1])),
              time_of_day |-> Some(Strip(parts[2]))]
        ELSE [int_ext |-> int_ext, location |-> Some(Strip(line2)),
              time_of_day |-> None]

-----------------------------------------------------------------------------
(* Inputs of the heading classifier: an optional prefix token followed by  *)
(* up to MaxItems items, each a space, the separator " - " or a word.      *)

MaxItems == 5

HeadingPrefixes == {"INT.", "EXT.", "INT/EXT.", "I/E.", "int."}
HeadingItems == {<<" ">>, DashSep, <<"KITCHEN">>, <<"NIGHT">>}

RECURSIVE Flatten(_)
Flatten(ss) == IF ss = <<>> THEN <<>> ELSE Head(ss) \o Flatten(Tail(ss))

ItemSeqs(n) == UNION {[1..k -> HeadingItems] : k \in 0..n}

HeadingInputs ==
    {Flatten(items) : items \in ItemSeqs(MaxItems)}
    \cup {<<p>> \o Flatten(items) : p \in HeadingPrefixes, items \in ItemSeqs(MaxItems)}

HeadingInit ==
    /\ heading_line \in HeadingInputs
    /\ heading_out = None

\* one call of extract_scene_heading
ExtractHeading ==
    /\ UNCHANGED nonHeadingVars
    /\ heading_out = None
    /\ heading_out' = Some(extract_scene_heading(heading_line))
    /\ UNCHANGED heading_line

HeadingIdle == heading_line = <<>> /\ heading_out = <<>>

-----------------------------------------------------------------------------
(* FountainParser: the patterns *)

\* PAGE_BREAK_PATTERN  ^==+$
PAGE_BREAK_PATTERN(line) ==
    Len(line) >= 2 /\ \A k \in 1..Len(line) : line[k] = "="

\* The tokens that spell (INT|EXT|I/E|INT/EXT) followed by "." or "/" in any
\* letter case (re.IGNORECASE).
HeadingPatternTokens ==
    {"INT.", "EXT.", "I/E.", "INT/EXT.", "int.", "ext.", "i/e.", "int/ext."}

\* SCENE_HEADING_PATTERN  ^(INT|EXT|I/E|INT/EXT)[\./].*$  IGNORECASE
SCENE_HEADING_PATTERN(line) == Len(line) > 0 /\ line[1] \in HeadingPatternTokens

\* The words made of the letters A-Z only.
UpperWords == {"JOHN", "MARY", "ROOM", "DAY"}

\* CHARACTER_PATTERN  ^[A-Z\s]+$
CHARACTER_PATTERN(line) ==
    Len(line) > 0 /\ \A k \in 1..Len(line) : line[k] \in UpperWords \/ IsSpace(line[k])

\* PARENTHETICAL_PATTERN  ^\(.*\)$
PARENTHETICAL_PATTERN(line) ==
    Len(line) >= 2 /\ line[1] = "(" /\ line[Len(line)] = ")"

SetMin(S) == CHOOSE x \in S : \A y \in S : x <= y
SetMax(S) == CHOOSE x \in S : \A y \in S : x >= y

\* SCENE_NUMBER_PATTERN.search  #(.+)#  : greedy, from the first "#" to the last
\* one, with at least one character between them.
SCENE_NUMBER_PATTERN(line) ==
    LET H == {k \in 1..Len(line) : line[k] = "#"}
    IN  IF H # {} /\ SetMax(H) - SetMin(H) >= 2
        THEN Some([first |-> SetMin(H), last |-> SetMax(H)])
        ELSE None

\* str(n) for a positive n below 100, as a sequence of digit tokens
DigitTok == <<"0", "1", "2", "3", "4", "5", "6", "7", "8", "9">>
str(n) ==
    IF n < 10 THEN <<DigitTok[n + 1]>>
    ELSE <<DigitTok[(n \div 10) + 1], DigitTok[(n % 10) + 1]>>

\* len(line.split()): the maximal runs of non-space tokens
WordCount(line) ==
    Cardinality({k \in 1..Len(line) :
        ~IsSpace(line[k]) /\ (k = 1 \/ IsSpace(line[k - 1]))})

-----------------------------------------------------------------------------
(* FountainParser.parse *)

MaxLines == 4

L_INT_ROOM_DAY == <<"INT.", " ", "ROOM", " ", "-", " ", "DAY">>
L_FORCED_2 == <<".", "ROOM", " ", "#", "2", "#">>
L_LOWER_INT == <<"int.", " ", "kitchen">>
L_JOHN == <<"JOHN">>
L_MARY == <<"MARY">>
L_HELLO == <<"Hello", " ", "there.">>
L_WALKS == <<"JOHN", " ", "walks", " ", "to", " ", "the", " ", "door.">>
L_BLANK == <<" ">>
L_PAGE == <<"=", "=">>
L_PAREN == <<"(", "softly", ")">>

ScriptLines ==
    {L_INT_ROOM_DAY, L_FORCED_2, L_LOWER_INT, L_JOHN, L_MARY, L_HELLO, L_WALKS,
     L_BLANK, L_PAGE, L_PAREN}

\* content.split('\n') has at least one element
Scripts == UNION {[1..k -> ScriptLines] : k \in 1..MaxLines}

ParserInit ==
    /\ lines \in Scripts
    /\ i = 1
    /\ scenes = <<>>
    /\ characters = <<>>
    /\ current_scene = None
    /\ current_character = None
    /\ current_dialogue = None
    /\ in_dialogue = FALSE
    /\ scene_number_counter = 1
    /\ page_number = 1
    /\ parse_done = FALSE
    /\ cue_lines = {}

\* line = line.strip() of the line the loop is at
Cur == Strip(lines[i])

InLoop == ~parse_done /\ i <= Len(lines)

IsBlank(line) == line = <<>>
IsSceneHeading(line) == SCENE_HEADING_PATTERN(line) \/ StartsWith(line, ".")
\* The mutant: a cue is recognised inside a dialogue block as well.
IsCue_InDialogueToo(line) == CHARACTER_PATTERN(line) /\ ~StartsWith(line, "!")
IsCue(line) == ~in_dialogue /\ CHARACTER_PATTERN(line) /\ ~StartsWith(line, "!")
IsParenthetical(line) == in_dialogue /\ PARENTHETICAL_PATTERN(line)
IsDialogue(line) == in_dialogue /\ current_dialogue # None

\* The mutant: a blank line ends the dialogue.
SkipBlank_ClosesDialogue ==
    /\ UNCHANGED nonParserVars
    /\ InLoop
    /\ IsBlank(Cur)
    /\ i' = i + 1
    /\ in_dialogue' = FALSE
    /\ UNCHANGED <<lines, scenes, characters, current_scene, current_character,
                   current_dialogue, scene_number_counter,
                   page_number, parse_done, cue_lines>>

\* if not line: continue
SkipBlank ==
    /\ UNCHANGED nonParserVars
    /\ InLoop
    /\ IsBlank(Cur)
    /\ i' = i + 1
    /\ UNCHANGED <<lines, scenes, characters, current_scene, current_character,
                   current_dialogue, in_dialogue, scene_number_counter,
                   page_number, parse_done, cue_lines>>

PageBreak ==
    /\ UNCHANGED nonParserVars
    /\ InLoop
    /\ ~IsBlank(Cur)
    /\ PAGE_BREAK_PATTERN(Cur)
    /\ page_number' = page_number + 1
    /\ i' = i + 1
    /\ UNCHANGED <<lines, scenes, characters, current_scene, current_character,
                   current_dialogue, in_dialogue, scene_number_counter,
                   parse_done, cue_lines>>

\* The mutant: the #...# marker stays in the slug line.
NewScene_KeepsMarker(line) ==
    LET m == SCENE_NUMBER_PATTERN(line)
        scene_number == IF m # None
                        THEN SubSeq(line, m[1].first + 1, m[1].last - 1)
                        ELSE str(scene_number_counter)
        line2 == IF StartsWith(line, ".") THEN Strip(Tail(line)) ELSE line
        h == extract_scene_heading(line2)
    IN  [scene_number |-> scene_number,
         slug_line |-> line2,
         page_number |-> page_number,
         int_ext |-> h.int_ext,
         location |-> h.location,
         time_of_day |-> h.time_of_day,
         content |-> <<line2>>,
         characters |-> <<>>,
         dialogue |-> <<>>,
         action |-> <<>>]

\* The scene record a heading line opens.
NewScene(line) ==
    LET m == SCENE_NUMBER_PATTERN(line)
        scene_number == IF m # None
                        THEN SubSeq(line, m[1].first + 1, m[1].last - 1)
                        ELSE str(scene_number_counter)
        line1 == IF m # None
                 THEN Strip(SubSeq(line, 1, m[1].first - 1)
                            \o SubSeq(line, m[1].last + 1, Len(line)))
                 ELSE line
        line2 == IF StartsWith(line1, ".") THEN Strip(Tail(line1)) ELSE line1
        h == extract_scene_heading(line2)
    IN  [scene_number |-> scene_number,
         slug_line |-> line2,
         page_number |-> page_number,
         int_ext |-> h.int_ext,
         location |-> h.location,
         time_of_day |-> h.time_of_day,
         content |-> <<line2>>,
         characters |-> <<>>,
         dialogue |-> <<>>,
         action |-> <<>>]

SceneHeading ==
    /\ UNCHANGED nonParserVars
    /\ InLoop
    /\ ~IsBlank(Cur) /\ ~PAGE_BREAK_PATTERN(Cur)
    /\ IsSceneHeading(Cur)
    /\ scenes' = IF current_scene # None THEN Append(scenes, current_scene[1])
                 ELSE scenes
    /\ current_scene' = Some(NewScene(Cur))
    /\ scene_number_counter' = scene_number_counter + 1
    /\ in_dialogue' = FALSE
    /\ i' = i + 1
    /\ UNCHANGED <<lines, characters, current_character, current_dialogue,
                   page_number, parse_done, cue_lines>>

InSeq(x, s) == \E k \in 1..Len(s) : s[k] = x

\* The mutant: the scene number is appended without the membership test.
RegisterCue_NoMembershipTest(chars, name, scene) ==
    IF \E k \in 1..Len(chars) : chars[k].name = name
    THEN [k \in 1..Len(chars) |->
            IF chars[k].name # name THEN chars[k]
            ELSE [chars[k] EXCEPT
                    !.dialogue_count = @ + 1,
                    !.scenes = IF scene # None
                               THEN Append(@, scene[1].scene_number) ELSE @]]
    ELSE Append(chars, [name |-> name, dialogue_count |-> 1, word_count |-> 0,
                        scenes |-> IF scene # None THEN <<scene[1].scene_number>>
                                   ELSE <<>>])

\* characters[current_character] is created or updated (an insertion-ordered
\* dict, kept as the sequence of its values)
RegisterCue(chars, name, scene) ==
    IF \E k \in 1..Len(chars) : chars[k].name = name
    THEN [k \in 1..Len(chars) |->
            IF chars[k].name # name THEN chars[k]
            ELSE [chars[k] EXCEPT
                    !.dialogue_count = @ + 1,
                    !.scenes = IF scene # None /\ ~InSeq(scene[1].scene_number, @)
                               THEN Append(@, scene[1].scene_number) ELSE @]]
    ELSE Append(chars, [name |-> name, dialogue_count |-> 1, word_count |-> 0,
                        scenes |-> IF scene # None THEN <<scene[1].scene_number>>
                                   ELSE <<>>])

\* The dialogue dict a cue creates; cue_line stands for the identity of the
\* dict object (the index of the cue line that created it).
NewDialogue(name) ==
    [character |-> name, lines |-> <<>>, parentheticals |-> <<>>, cue_line |-> i]

CharacterCue ==
    /\ UNCHANGED nonParserVars
    /\ InLoop
    /\ ~IsBlank(Cur) /\ ~PAGE_BREAK_PATTERN(Cur) /\ ~IsSceneHeading(Cur)
    /\ IsCue(Cur)
    /\ current_character' = Some(Cur)
    /\ in_dialogue' = TRUE
    /\ current_dialogue' = Some(NewDialogue(Cur))
    /\ current_scene' =
         IF current_scene # None /\ ~InSeq(Cur, current_scene[1].characters)
         THEN Some([current_scene[1] EXCEPT !.characters = Append(@, Cur)])
         ELSE current_scene
    /\ characters' = RegisterCue(characters, Cur, current_scene)
    /\ cue_lines' = cue_lines \cup {i}
    /\ i' = i + 1
    /\ UNCHANGED <<lines, scenes, scene_number_counter, page_number, parse_done>>

Parenthetical ==
    /\ UNCHANGED nonParserVars
    /\ InLoop
    /\ ~IsBlank(Cur) /\ ~PAGE_BREAK_PATTERN(Cur) /\ ~IsSceneHeading(Cur)
    /\ ~IsCue(Cur)
    /\ IsParenthetical(Cur)
    /\ current_dialogue' =
         IF current_dialogue # None
         THEN Some([current_dialogue[1] EXCEPT !.parentheticals = Append(@, Cur)])
         ELSE current_dialogue
    /\ i' = i + 1
    /\ UNCHANGED <<lines, scenes, characters, current_scene, current_character,
                   in_dialogue, scene_number_counter, page_number, parse_done,
                   cue_lines>>

\* characters[current_character]['word_count'] += word_count
AddWords(chars, name, n) ==
    [k \in 1..Len(chars) |->
        IF name # None /\ chars[k].name = name[1]
        THEN [chars[k] EXCEPT !.word_count = @ + n] ELSE chars[k]]

Dialogue ==
    /\ UNCHANGED nonParserVars
    /\ InLoop
    /\ ~IsBlank(Cur) /\ ~PAGE_BREAK_PATTERN(Cur) /\ ~IsSceneHeading(Cur)
    /\ ~IsCue(Cur) /\ ~IsParenthetical(Cur)
    /\ IsDialogue(Cur)
    /\ current_dialogue' = Some([current_dialogue[1] EXCEPT !.lines = Append(@, Cur)])
    /\ characters' = AddWords(characters, current_character, WordCount(Cur))
    /\ current_scene' =
         IF current_scene # None
         THEN Some([current_scene[1] EXCEPT !.content = Append(@, Cur)])
         ELSE current_scene
    /\ i' = i + 1
    /\ UNCHANGED <<lines, scenes, current_character, in_dialogue,
                   scene_number_counter, page_number, parse_done, cue_lines>>

\* The scene after an action line: the line joins action and content, and the
\* open dialogue block, if any, is flushed into the scene's dialogue list.
SceneAfterAction(scene, line, dialogue) ==
    [scene EXCEPT
        !.action = Append(@, line),
        !.content = Append(@, line),
        !.dialogue = IF dialogue # None THEN Append(@, dialogue[1]) ELSE @]

ActionLine ==
    /\ UNCHANGED nonParserVars
    /\ InLoop
    /\ ~IsBlank(Cur) /\ ~PAGE_BREAK_PATTERN(Cur) /\ ~IsSceneHeading(Cur)
    /\ ~IsCue(Cur) /\ ~IsParenthetical(Cur) /\ ~IsDialogue(Cur)
    /\ current_scene' =
         IF current_scene # None
         THEN Some(SceneAfterAction(current_scene[1], Cur, current_dialogue))
         ELSE current_scene
    /\ in_dialogue' = FALSE
    /\ current_dialogue' =
         IF current_dialogue # None /\ current_scene # None THEN None
         ELSE current_dialogue
    /\ i' = i + 1
    /\ UNCHANGED <<lines, scenes, characters, current_character,
                   scene_number_counter, page_number, parse_done, cue_lines>>

\* after the loop: the last scene is added and the method returns
Finish ==
    /\ UNCHANGED nonParserVars
    /\ ~parse_done
    /\ i > Len(lines)
    /\ scenes' = IF current_scene # None THEN Append(scenes, current_scene[1])
                 ELSE scenes
    /\ parse_done' = TRUE
    /\ UNCHANGED <<lines, i, characters, current_scene, current_character,
                   current_dialogue, in_dialogue, scene_number_counter,
                   page_number, cue_lines>>

ParserIdle ==
    /\ lines = <<>> /\ i = 0 /\ scenes = <<>> /\ characters = <<>>
    /\ current_scene = None /\ current_character = None
    /\ current_dialogue = None /\ in_dialogue = FALSE
    /\ scene_number_counter = 0 /\ page_number = 0 /\ parse_done = TRUE
    /\ cue_lines = {}

ParseNext ==
    \/ SkipBlank
    \/ PageBreak
    \/ SceneHeading
    \/ CharacterCue
    \/ Parenthetical
    \/ Dialogue
    \/ ActionLine
    \/ Finish

-----------------------------------------------------------------------------
(* Numbers.  A Python float that the code computes from integers by +, *,  *)
(* / and min/max is kept as an exact fraction [n, d] with d > 0; round(x,  *)
(* 2) gives an integer number of hundredths (round-half-even on the exact  *)
(* value).                                                                 *)

RECURSIVE GCD(_, _)
GCD(a, b) == IF b = 0 THEN a ELSE GCD(b, a % b)

Abs(x) == IF x < 0 THEN -x ELSE x

Rat(n, d) ==
    LET g == GCD(Abs(n), d) IN [n |-> n \div g, d |-> d \div g]

RAdd(a, b) == Rat(a.n * b.d + b.n * a.d, a.d * b.d)
RMul(a, b) == Rat(a.n * b.n, a.d * b.d)
RLe(a, b) == a.n * b.d <= b.n * a.d
RMin(a, b) == IF RLe(a, b) THEN a ELSE b
RMax(a, b) == IF RLe(a, b) THEN b ELSE a

RZero == Rat(0, 1)
ROne == Rat(1, 1)

\* round(x, 2), in hundredths
Round2(x) ==
    LET num == 100 * x.n
        q == num \div x.d
        r == num % x.d
    IN  IF 2 * r > x.d THEN q + 1
        ELSE IF 2 * r = x.d THEN q + (q % 2)
        ELSE q

-----------------------------------------------------------------------------
(* CharacterAnalyzer *)

\* str.isdigit and int(): "0".."9" are decimal digits; the superscript two
\* is a digit for isdigit, and int() raises ValueError on it.
DecimalDigits == {"0", "1", "2", "3", "4", "5", "6", "7", "8", "9"}
DigitLike == DecimalDigits \cup {"SUPERSCRIPT_TWO"}

isdigit(s) == Len(s) > 0 /\ \A k \in 1..Len(s) : s[k] \in DigitLike

DigitValue(t) == CHOOSE v \in 0..9 : DigitTok[v + 1] = t

RECURSIVE int(_)
int(s) ==
    IF Len(s) = 1 THEN DigitValue(s[1])
    ELSE 10 * int(SubSeq(s, 1, Len(s) - 1)) + DigitValue(s[Len(s)])

\* int(s) raises ValueError
IntRaises(s) == \E k \in 1..Len(s) : s[k] \notin DecimalDigits

max_possible_words == 5000

\* name_prominence of _calculate_character_importance (lines 425-435):
\* [raised |-> a ZeroDivisionError leaves the method, value |-> the term]
NameProminence(char_scenes, total_scenes) ==
    LET numeric == {k \in 1..Len(char_scenes) : isdigit(char_scenes[k])}
    IN  IF char_scenes = <<>> THEN [raised |-> FALSE, value |-> RZero]
        ELSE IF \E k \in numeric : IntRaises(char_scenes[k])
        THEN [raised |-> FALSE, value |-> Rat(1, 2)]
        ELSE IF total_scenes = 0
        THEN [raised |-> TRUE, value |-> RZero]
        ELSE IF numeric = {}
        \* min(...) is float('inf'): 1 - inf is -inf, and max(-inf, 0) is 0
        THEN [raised |-> FALSE, value |-> RZero]
        ELSE LET first_scene == SetMin({int(char_scenes[k]) : k \in numeric})
             IN  [raised |-> FALSE,
                  value |-> RMax(Rat(2 * total_scenes - first_scene,
                                     2 * total_scenes), RZero)]

\* The weighted sum of _calculate_character_importance, before the clamp.
ImportanceSum(char_scenes, word_count, relationship_count, total_scenes,
              total_characters) ==
    LET scene_presence == IF total_scenes > 0
                          THEN Rat(Len(char_scenes), total_scenes) ELSE RZero
        dialogue_volume == RMin(Rat(word_count, max_possible_words), ROne)
        relationship_centrality ==
            IF total_characters > 1
            THEN Rat(relationship_count, total_characters - 1) ELSE RZero
        name_prominence == NameProminence(char_scenes, total_scenes).value
    IN  RAdd(RAdd(RMul(scene_presence, Rat(4, 10)),
                  RMul(dialogue_volume, Rat(3, 10))),
             RAdd(RMul(relationship_centrality, Rat(2, 10)),
                  RMul(name_prominence, Rat(1, 10))))

\* The mutant: the final clamp to [0, 1] is missing.
ClampUnit_Missing(x) == x

\* min(max(x, 0.0), 1.0)
ClampUnit(x) == RMin(RMax(x, RZero), ROne)

\* _calculate_character_importance: [raised, value in hundredths]
calculate_character_importance(char_scenes, word_count, relationship_count,
                               total_scenes, total_characters) ==
    IF NameProminence(char_scenes, total_scenes).raised
    THEN [raised |-> TRUE, value |-> 0]
    ELSE [raised |-> FALSE,
          value |-> Round2(ClampUnit(ImportanceSum(char_scenes, word_count,
                      relationship_count, total_scenes, total_characters)))]

\* set(character.get("scenes", []))
SeqToSet(s) == {s[k] : k \in 1..Len(s)}

\* The number of blocks of a scene spoken by c.
TurnsOf(scene_dialogue, c) ==
    Cardinality({k \in 1..Len(scene_dialogue) : scene_dialogue[k].character = c})

\* The consecutive blocks of a scene that alternate between char1 and char2.
Exchanges(scene_dialogue, char1, char2) ==
    Cardinality({k \in 1..(Len(scene_dialogue) - 1) :
        LET speaker1 == scene_dialogue[k].character
            speaker2 == scene_dialogue[k + 1].character
        IN  \/ speaker1 = char1 /\ speaker2 = char2
            \/ speaker1 = char2 /\ speaker2 = char1})

Min2(a, b) == IF a <= b THEN a ELSE b

RECURSIVE SumOver(_, _)
SumOver(f, S) ==
    IF S = {} THEN 0
    ELSE LET x == CHOOSE y \in S : TRUE IN f[x] + SumOver(f, S \ {x})

\* _calculate_dialogue_interaction
calculate_dialogue_interaction(char1, char2, scene_list, shared_scenes) ==
    LET counted == {k \in 1..Len(scene_list) :
                       /\ scene_list[k].scene_number \in shared_scenes
                       /\ Len(scene_list[k].dialogue) > 1}
        interaction_count ==
            SumOver([k \in counted |->
                        Exchanges(scene_list[k].dialogue, char1, char2)], counted)
        max_possible_interactions ==
            SumOver([k \in counted |->
                        Min2(TurnsOf(scene_list[k].dialogue, char1),
                             TurnsOf(scene_list[k].dialogue, char2))], counted)
    IN  IF max_possible_interactions = 0 THEN RZero
        ELSE Rat(interaction_count, max_possible_interactions)

\* str.lower, on the tokens that have upper-case letters
LowerTok(t) ==
    CASE t = "JOHN" -> "john"
      [] t = "MARY" -> "mary"
      [] t = "BOB" -> "bob"
      [] OTHER -> t

Lower(s) == [k \in 1..Len(s) |-> LowerTok(s[k])]

\* The number of characters of a token.
TokLen(t) ==
    CASE t \in {" ", "-", ".", "#", "(", ")", "="} -> 1
      [] t \in {"an"} -> 2
      [] t \in {"bob", "and", "his"} -> 3
      [] t \in {"john", "mary", "wife"} -> 4
      [] t \in {"enemy"} -> 5
      [] OTHER -> 6

\* " ".join(list of lines)
RECURSIVE JoinSpace(_)
JoinSpace(ls) ==
    IF ls = <<>> THEN <<>>
    ELSE IF Len(ls) = 1 THEN ls[1]
    ELSE ls[1] \o <<" ">> \o JoinSpace(Tail(ls))

\* The characters between token s and token e of a text.
RECURSIVE CharsBetween(_, _, _)
CharsBetween(text, s, e) ==
    IF s + 1 >= e THEN 0
    ELSE TokLen(text[s + 1]) + CharsBetween(text, s + 1, e)

\* len(re.findall(a + '.{0,30}' + b, text)) from token p on: the leftmost a
\* that has a b at most 30 characters after it, up to the last such b.
RECURSIVE Near(_, _, _, _)
Near(a, b, text, p) ==
    LET starts == {s \in p..Len(text) :
                     /\ text[s] = a
                     /\ \E e \in (s + 1)..Len(text) :
                          text[e] = b /\ CharsBetween(text, s, e) <= 30}
    IN  IF starts = {} THEN 0
        ELSE LET s == SetMin(starts)
                 e == SetMax({x \in (s + 1)..Len(text) :
                          text[x] = b /\ CharsBetween(text, s, x) <= 30})
             IN  1 + Near(a, b, text, e + 1)

\* len(re.findall(r'\b' + w + r'\b', text))
Occurrences(w, text) == Cardinality({k \in 1..Len(text) : text[k] = w})

\* self.relationship_indicators, in dict order, with some of the keywords
RelTypes == <<"family", "romantic", "professional", "friendship", "antagonistic">>
Indicators(rel_type) ==
    CASE rel_type = "family" -> {"wife", "father"}
      [] rel_type = "romantic" -> {"love"}
      [] rel_type = "professional" -> {"boss"}
      [] rel_type = "friendship" -> {"friend"}
      [] rel_type = "antagonistic" -> {"enemy"}

\* The lines of a scene's dialogue blocks, in order.
RECURSIVE DialogueLines(_)
DialogueLines(scene_dialogue) ==
    IF scene_dialogue = <<>> THEN <<>>
    ELSE Head(scene_dialogue).lines \o DialogueLines(Tail(scene_dialogue))

RECURSIVE SharedSceneTexts(_, _)
SharedSceneTexts(scene_list, shared_scenes) ==
    IF scene_list = <<>> THEN <<>>
    ELSE (IF Head(scene_list).scene_number \in shared_scenes
          THEN DialogueLines(Head(scene_list).dialogue) \o Head(scene_list).action
          ELSE <<>>)
         \o SharedSceneTexts(Tail(scene_list), shared_scenes)

\* The score of a relationship type, in fifths (a direct hit weighs 0.2).
TypeScore(rel_type, char1, char2, full_text) ==
    LET c1 == LowerTok(char1)
        c2 == LowerTok(char2)
        ind == Indicators(rel_type)
    IN  SumOver([w \in ind |->
            5 * (Near(c1, w, full_text, 1) + Near(c2, w, full_text, 1)
                 + Near(w, c1, full_text, 1) + Near(w, c2, full_text, 1))
            + Occurrences(w, full_text)], ind)

\* _detect_relationship_type: max() returns the first type with the top score
detect_relationship_type(char1, char2, scene_list, shared_scenes) ==
    LET full_text == Lower(JoinSpace(SharedSceneTexts(scene_list, shared_scenes)))
        score == [k \in 1..Len(RelTypes) |->
                    TypeScore(RelTypes[k], char1, char2, full_text)]
        scored == {k \in 1..Len(RelTypes) : score[k] > 0}
    IN  IF scored = {} THEN "associates"
        ELSE RelTypes[SetMin({k \in scored : \A j \in scored : score[j] <= score[k]})]

\* The entry of a pair with shared scenes (lines 246-266).
RelationshipEntry(char1, char2, scene_list, scene_map) ==
    LET shared_scenes == scene_map[char1] \cap scene_map[char2]
        union_scenes == scene_map[char1] \cup scene_map[char2]
        co_occurrence == Rat(Cardinality(shared_scenes), Cardinality(union_scenes))
        dialogue_interaction ==
            calculate_dialogue_interaction(char1, char2, scene_list, shared_scenes)
        relationship_strength ==
            RAdd(RMul(Rat(7, 10), co_occurrence), RMul(Rat(3, 10), dialogue_interaction))
    IN  [strength |-> Round2(relationship_strength),
         co_occurrence |-> Round2(co_occurrence),
         dialogue_interaction |-> Round2(dialogue_interaction),
         shared_scenes |-> shared_scenes,
         relationship_type |->
            detect_relationship_type(char1, char2, scene_list, shared_scenes)]

\* The mutant: the mirrored entry is not stored.
StoreRelationship_NoMirror(matrix, char1, char2, entry) ==
    [p \in DOMAIN matrix \cup {<<char1, char2>>} |->
        IF p = <<char1, char2>> THEN entry ELSE matrix[p]]

\* relationship_matrix[char1][char2] = ...; relationship_matrix[char2][char1] = ...
StoreRelationship(matrix, char1, char2, entry) ==
    [p \in DOMAIN matrix \cup {<<char1, char2>>, <<char2, char1>>} |->
        IF p \in {<<char1, char2>>, <<char2, char1>>} THEN entry ELSE matrix[p]]

\* itertools.combinations(keys, 2), in order
Combinations2(keys) ==
    LET idx == {p \in (1..Len(keys)) \X (1..Len(keys)) : p[1] < p[2]}
        rank(p) == Cardinality({q \in idx :
                      q[1] < p[1] \/ (q[1] = p[1] /\ q[2] <= p[2])})
    IN  [n \in 1..Cardinality(idx) |->
            LET p == CHOOSE q \in idx : rank(q) = n IN <<keys[p[1]], keys[p[2]]>>]

-----------------------------------------------------------------------------
(* CharacterAnalyzer.analyze_characters.  Character names are single       *)
(* tokens here; the emotion, style, gender, age and arc analyses write     *)
(* fields that no step below reads and are left out.                       *)

MaxBlocks == 3

CharNames == <<"JOHN", "MARY", "BOB">>
Speakers == {"JOHN", "MARY"}
SceneNumbers == <<<<"1">>, <<"2">>>>
SceneLists ==
    {<<>>, <<SceneNumbers[1]>>, <<SceneNumbers[2]>>, <<SceneNumbers[1], SceneNumbers[2]>>}
ActionTexts ==
    {<<>>, <<<<"JOHN", " ", "and", " ", "his", " ", "wife">>, <<"an", " ", "enemy">>>>}

SpeakerSeqs(n) == UNION {[1..k -> Speakers] : k \in 0..n}
Block(c) == [character |-> c, lines |-> <<>>, parentheticals |-> <<>>]
Blocks(sp) == [k \in 1..Len(sp) |-> Block(sp[k])]

AnalysisInputs ==
    {[characters |->
        [k \in 1..Len(CharNames) |->
            [name |-> CharNames[k], dialogue_count |-> 1, word_count |-> 2500,
             scenes |-> sl[k]]],
      scenes |->
        <<[scene_number |-> SceneNumbers[1], dialogue |-> Blocks(d1), action |-> a1],
          [scene_number |-> SceneNumbers[2], dialogue |-> Blocks(d2), action |-> a2]>>] :
        sl \in [1..Len(CharNames) -> SceneLists],
        d1 \in SpeakerSeqs(MaxBlocks), d2 \in SpeakerSeqs(MaxBlocks),
        a1 \in ActionTexts, a2 \in ActionTexts}

AnalysisInit ==
    /\ parsed_script \in {p \in AnalysisInputs :
            Len(p.scenes[1].dialogue) + Len(p.scenes[2].dialogue) <= MaxBlocks}
    /\ character_analysis = <<>>
    /\ character_scene_map = <<>>
    /\ relationship_matrix = <<>>
    /\ pair_idx = 1
    /\ ca_pc = "setup"

\* The keys of character_scene_map, in insertion order.
RECURSIVE KeysOf(_)
KeysOf(chars) ==
    IF chars = <<>> THEN <<>>
    ELSE LET rest == KeysOf(SubSeq(chars, 1, Len(chars) - 1))
             name == chars[Len(chars)].name
         IN  IF InSeq(name, rest) THEN rest ELSE Append(rest, name)

\* The last record of a name wins (dict assignment).
LastOf(chars, name) ==
    chars[SetMax({k \in 1..Len(chars) : chars[k].name = name})]

\* lines 99-136: the per-character records and the scene map
SetupAnalysis ==
    /\ UNCHANGED nonAnalysisVars
    /\ ca_pc = "setup"
    /\ LET chars == parsed_script.characters
           names == SeqToSet(KeysOf(chars))
       IN  /\ character_analysis' =
                [c \in names |->
                    [name |-> c,
                     dialogue_count |-> LastOf(chars, c).dialogue_count,
                     word_count |-> LastOf(chars, c).word_count,
                     scenes |-> LastOf(chars, c).scenes,
                     importance_score |-> 0,
                     relationships |-> <<>>]]
           /\ character_scene_map' =
                [c \in names |-> SeqToSet(LastOf(chars, c).scenes)]
    /\ ca_pc' = "importance"
    /\ UNCHANGED <<parsed_script, relationship_matrix, pair_idx>>

ImportanceOf(analysis) ==
    calculate_character_importance(analysis.scenes, analysis.word_count,
        Cardinality(DOMAIN analysis.relationships),
        Len(parsed_script.scenes), Len(parsed_script.characters))

\* lines 138-142: the importance scores, from the records as they are now
CalcImportance ==
    /\ UNCHANGED nonAnalysisVars
    /\ ca_pc = "importance"
    /\ IF \E c \in DOMAIN character_analysis :
            ImportanceOf(character_analysis[c]).raised
       THEN /\ ca_pc' = "raised"
            /\ UNCHANGED character_analysis
       ELSE /\ ca_pc' = "relationships"
            /\ character_analysis' =
                 [c \in DOMAIN character_analysis |->
                    [character_analysis[c] EXCEPT
                        !.importance_score = ImportanceOf(character_analysis[c]).value]]
    /\ UNCHANGED <<parsed_script, character_scene_map, relationship_matrix, pair_idx>>

Pairs == Combinations2(KeysOf(parsed_script.characters))

PairHasRelationship(p) ==
    /\ character_scene_map[p[1]] # {}
    /\ character_scene_map[p[2]] # {}
    /\ character_scene_map[p[1]] \cap character_scene_map[p[2]] # {}

\* lines 235-244: a pair without shared scenes is skipped
PairSkip ==
    /\ UNCHANGED nonAnalysisVars
    /\ ca_pc = "relationships"
    /\ pair_idx <= Len(Pairs)
    /\ ~PairHasRelationship(Pairs[pair_idx])
    /\ pair_idx' = pair_idx + 1
    /\ UNCHANGED <<parsed_script, character_analysis, character_scene_map,
                   relationship_matrix, ca_pc>>

\* lines 246-275: the entry of a pair and its mirror
PairStore ==
    /\ UNCHANGED nonAnalysisVars
    /\ ca_pc = "relationships"
    /\ pair_idx <= Len(Pairs)
    /\ PairHasRelationship(Pairs[pair_idx])
    /\ LET char1 == Pairs[pair_idx][1]
           char2 == Pairs[pair_idx][2]
       IN  relationship_matrix' =
             StoreRelationship(relationship_matrix, char1, char2,
                RelationshipEntry(char1, char2, parsed_script.scenes,
                                  character_scene_map))
    /\ pair_idx' = pair_idx + 1
    /\ UNCHANGED <<parsed_script, character_analysis, character_scene_map, ca_pc>>

\* relationship_matrix[char1], as a dict
RowOf(matrix, char1) ==
    [c \in {p[2] : p \in {q \in DOMAIN matrix : q[1] = char1}} |-> matrix[<<char1, c>>]]

\* lines 149-163: the rows are attached and the result is returned
AttachRelationships ==
    /\ UNCHANGED nonAnalysisVars
    /\ ca_pc = "relationships"
    /\ pair_idx > Len(Pairs)
    /\ character_analysis' =
         [c \in DOMAIN character_analysis |->
            IF \E p \in DOMAIN relationship_matrix : p[1] = c
            THEN [character_analysis[c] EXCEPT
                    !.relationships = RowOf(relationship_matrix, c)]
            ELSE character_analysis[c]]
    /\ ca_pc' = "done"
    /\ UNCHANGED <<parsed_script, character_scene_map, relationship_matrix, pair_idx>>

AnalysisIdle ==
    /\ parsed_script = <<>> /\ character_analysis = <<>>
    /\ character_scene_map = <<>> /\ relationship_matrix = <<>>
    /\ pair_idx = 0 /\ ca_pc = "idle"

AnalysisNext ==
    \/ SetupAnalysis
    \/ CalcImportance
    \/ PairSkip
    \/ PairStore
    \/ AttachRelationships

-----------------------------------------------------------------------------
(* SceneAnalyzer: the complexity score *)

keyword_cap == 10

\* _count_keyword_matches, from the number of keyword matches in the text
count_keyword_matches(matches) == Min2(matches, keyword_cap)

\* self.location_type_complexity, by int_ext.lower(); 0.5 when there is none
LocationTypeComplexity(int_ext) ==
    IF int_ext = None THEN Rat(5, 10)
    ELSE CASE int_ext[1] = "INT" -> Rat(6, 10)
           [] int_ext[1] = "EXT" -> Rat(8, 10)
           [] int_ext[1] = "INT/EXT" -> Rat(9, 10)
           [] OTHER -> Rat(5, 10)

\* _calculate_location_complexity; location_matches is null when the scene
\* has no location, else the number of complex-location keywords in it
calculate_location_complexity(int_ext, location_matches) ==
    LET location_complexity_factor ==
            IF location_matches = None THEN RZero
            ELSE RMin(Rat(count_keyword_matches(location_matches[1]), 10), Rat(5, 10))
    IN  RMin(RAdd(LocationTypeComplexity(int_ext), location_complexity_factor), ROne)

\* _calculate_time_complexity: the first key of self.time_complexity that the
\* lower-cased time of day contains
calculate_time_complexity(time_of_day) ==
    IF time_of_day = None THEN Rat(5, 10)
    ELSE CASE time_of_day[1] = "DAY" -> Rat(5, 10)
           [] time_of_day[1] = "EVENING" -> Rat(7, 10)
           [] time_of_day[1] = "NIGHT" -> ROne
           [] OTHER -> Rat(5, 10)

\* min(character_count / 10.0, 1.0)
character_factor(character_count) == RMin(Rat(character_count, 10), ROne)

\* _calculate_complexity_score, in hundredths
calculate_complexity_score(character_count, dialogue_density, action_density,
                           special_elements, location_complexity,
                           time_complexity) ==
    LET special_factor == RMin(Rat(special_elements, 10), ROne)
        complexity ==
            RAdd(RAdd(RAdd(RMul(character_factor(character_count), Rat(20, 100)),
                           RMul(dialogue_density, Rat(15, 100))),
                      RAdd(RMul(action_density, Rat(15, 100)),
                           RMul(special_factor, Rat(20, 100)))),
                 RAdd(RMul(location_complexity, Rat(15, 100)),
                      RMul(time_complexity, Rat(15, 100))))
    IN  Round2(ClampUnit(complexity))

\* analyze_scene, lines 103-131 (the duration, sentiment and key actions are
\* computed from the score and the text and are left out)
analyze_scene(scene_data) ==
    LET character_count == scene_data.character_count
        dialogue_line_count == scene_data.dialogue_line_count
        action_line_count == scene_data.action_line_count
        total_line_count == dialogue_line_count + action_line_count
        dialogue_density == IF total_line_count > 0
                            THEN Rat(dialogue_line_count, total_line_count) ELSE RZero
        action_density == IF total_line_count > 0
                          THEN Rat(action_line_count, total_line_count) ELSE RZero
        complexity_keyword_matches == count_keyword_matches(scene_data.keyword_matches)
    IN  [complexity_score |->
            calculate_complexity_score(character_count, dialogue_density,
                action_density, complexity_keyword_matches,
                calculate_location_complexity(scene_data.int_ext,
                                              scene_data.location_matches),
                calculate_time_complexity(scene_data.time_of_day)),
         dialogue_density |-> dialogue_density,
         action_density |-> action_density,
         complexity_keyword_matches |-> complexity_keyword_matches]

-----------------------------------------------------------------------------
(* The two scores, each on inputs of its own *)

MaxCharacters == 50
MaxSceneLines == 2
MaxTotalScenes == 2
MaxTotalCharacters == 3
MaxRelationships == 3

SceneInputs ==
    [kind : {"scene"},
     character_count : {0, 5, 10, 11, MaxCharacters},
     dialogue_line_count : 0..MaxSceneLines,
     action_line_count : 0..MaxSceneLines,
     keyword_matches : {0, 3, 10, 13},
     int_ext : {None, Some("INT"), Some("EXT"), Some("INT/EXT")},
     location_matches : {None, Some(0), Some(2), Some(6)},
     time_of_day : {None, Some("DAY"), Some("EVENING"), Some("NIGHT")}]

CharacterSceneLists ==
    {<<>>, <<<<"1">>>>, <<<<"2">>, <<"1">>>>, <<<<"1">>, <<"2">>, <<"3">>>>,
     <<<<"A">>>>, <<<<"1", "2", "A">>, <<"2">>>>, <<<<"SUPERSCRIPT_TWO">>>>}

CharacterInputs ==
    [kind : {"character"},
     scenes : CharacterSceneLists,
     word_count : {0, 2500, 5000, 10000},
     relationship_count : 0..MaxRelationships,
     total_scenes : 0..MaxTotalScenes,
     total_characters : 0..MaxTotalCharacters]

ScoreInit ==
    /\ score_in \in SceneInputs \cup CharacterInputs
    /\ score_out = None

\* one call of SceneAnalyzer.analyze_scene
AnalyzeScene ==
    /\ UNCHANGED nonScoreVars
    /\ score_out = None
    /\ score_in.kind = "scene"
    /\ score_out' = Some(analyze_scene(score_in))
    /\ UNCHANGED score_in

\* one call of CharacterAnalyzer._calculate_character_importance
CalculateImportance ==
    /\ UNCHANGED nonScoreVars
    /\ score_out = None
    /\ score_in.kind = "character"
    /\ score_out' = Some(calculate_character_importance(score_in.scenes,
                        score_in.word_count, score_in.relationship_count,
                        score_in.total_scenes, score_in.total_characters))
    /\ UNCHANGED score_in

ScoreIdle == score_in = <<>> /\ score_out = <<>>

ScoreNext ==
    \/ AnalyzeScene
    \/ CalculateImportance

-----------------------------------------------------------------------------
(* ElementExtractor._deduplicate_elements.  An element is a dict: a record  *)
(* that may or may not have the keys context and importance.  Names and    *)
(* contexts are sequences of characters.                                   *)

LowerChar(c) ==
    CASE c = "G" -> "g"
      [] c = "H" -> "h"
      [] OTHER -> c

\* element['name'].lower()
LowerName(name) == [k \in 1..Len(name) |-> LowerChar(name[k])]

HasKey(d, key) == key \in DOMAIN d

\* d[key] = value
SetKey(d, key, value) ==
    [k \in DOMAIN d \cup {key} |-> IF k = key THEN value ELSE d[k]]

\* element.get('context', '')
ContextOf(element) == IF HasKey(element, "context") THEN element.context ELSE <<>>

\* The occurrences of a stored element after those of another are merged in.
RECURSIVE MergeOccurrences(_, _)
MergeOccurrences(stored, new) ==
    IF new = <<>> THEN stored
    ELSE MergeOccurrences(IF InSeq(Head(new), stored) THEN stored
                          ELSE Append(stored, Head(new)), Tail(new))

\* lines 333-340: a later element of the same name is merged into the stored one
MergeElement(stored, element) ==
    LET merged == [stored EXCEPT
                     !.occurrences = MergeOccurrences(@, element.occurrences)]
    IN  IF Len(ContextOf(element)) > Len(ContextOf(stored))
        THEN SetKey(merged, "context", element.context)
        ELSE merged

\* lines 330-342: element_map after the elements, as the sequence of its
\* [key, element] items in insertion order
RECURSIVE ElementMap(_, _)
ElementMap(elems, map) ==
    IF elems = <<>> THEN map
    ELSE LET element == Head(elems)
             name == LowerName(element.name)
             at == {k \in 1..Len(map) : map[k].key = name}
         IN  ElementMap(Tail(elems),
                IF at # {}
                THEN [k \in 1..Len(map) |->
                        IF k \in at
                        THEN [key |-> name, element |-> MergeElement(map[k].element, element)]
                        ELSE map[k]]
                ELSE Append(map, [key |-> name, element |-> element]))

\* The mutant: the importance is scaled again when it is already there.
WithImportance_Rescaled(element) ==
    IF HasKey(element, "importance")
    THEN SetKey(element, "importance", RMul(element.importance, Rat(1, 10)))
    ELSE SetKey(element, "importance", Rat(Len(element.occurrences), 10))

\* lines 345-347
WithImportance(element) ==
    IF HasKey(element, "importance") THEN element
    ELSE SetKey(element, "importance", Rat(Len(element.occurrences), 10))

\* _deduplicate_elements: the returned list
deduplicate_elements(elems) ==
    LET map == ElementMap(elems, <<>>)
    IN  [k \in 1..Len(map) |-> WithImportance(map[k].element)]

\* The argument list after the call: element.copy() is shallow, so the copy
\* stored for a name shares the occurrences list of the first element of
\* that name, and the merge appends to that list.
ElementsAfterCall(elems) ==
    LET map == ElementMap(elems, <<>>)
        first(j) == \A h \in 1..(j - 1) : LowerName(elems[h].name) # LowerName(elems[j].name)
        stored(j) == map[CHOOSE k \in 1..Len(map) : map[k].key = LowerName(elems[j].name)]
    IN  [j \in 1..Len(elems) |->
            IF first(j)
            THEN [elems[j] EXCEPT !.occurrences = stored(j).element.occurrences]
            ELSE elems[j]]

MaxElements == 3

ElementNames == {<<"G", "u", "n">>, <<"g", "u", "n">>, <<"H", "a", "t">>}
OccurrenceLists == {<<1>>, <<2>>, <<1, 1>>}
Contexts == {<<"a">>, <<"b", "c">>}

\* characters and locations come with an importance and without a context
ScoredElements ==
    [name : ElementNames, occurrences : OccurrenceLists, importance : {Rat(1, 2)}]

\* props, vehicles, wardrobe and effects come with a context
ExtractedElements ==
    [name : ElementNames, occurrences : OccurrenceLists, context : Contexts]

\* a prop found in up to MaxOccurrences scenes, more than the divisor of
\* line 347
MaxOccurrences == 11

FrequentElements ==
    {[name |-> <<"G", "u", "n">>, occurrences |-> [j \in 1..k |-> j],
      context |-> <<"a">>] : k \in 0..MaxOccurrences}

ElementLists ==
    UNION {[1..k -> ScoredElements] \cup [1..k -> ExtractedElements] : k \in 0..MaxElements}
    \cup {<<e>> : e \in FrequentElements}

DedupInit ==
    /\ elements \in ElementLists
    /\ elements_at_call = elements
    /\ dedup_out = <<>>

\* results[element_type] = self._deduplicate_elements(elements)
DeduplicateElements ==
    /\ UNCHANGED nonDedupVars
    /\ dedup_out = <<>>
    /\ dedup_out' = <<deduplicate_elements(elements)>>
    /\ elements' = ElementsAfterCall(elements)
    /\ UNCHANGED elements_at_call

\* _deduplicate_elements called on the list it returned
DeduplicateAgain ==
    /\ UNCHANGED nonDedupVars
    /\ Len(dedup_out) = 1
    /\ dedup_out' = Append(dedup_out, deduplicate_elements(dedup_out[1]))
    /\ UNCHANGED <<elements, elements_at_call>>

DedupIdle == elements = <<>> /\ elements_at_call = <<>> /\ dedup_out = <<>>

DedupNext ==
    \/ DeduplicateElements
    \/ DeduplicateAgain

-----------------------------------------------------------------------------------------------------------------------------------------------------
(* _process_breakdown_background, the job that analyze_script starts.  One  *)
(* script and its breakdown; progress is in tenths.  Every await of the job *)
(* is a step, and every step can raise.                                     *)

MaxJobScenes == 2
MaxJobElements == 1

JobSceneNumbers == {<<"1">>, <<"2">>}
JobSceneLists == UNION {[1..k -> JobSceneNumbers] : k \in 0..MaxJobScenes}
JobCharacterLists == {<<>>, <<"JOHN">>, <<"JOHN", "MARY">>}
JobElements ==
    [element_type : {"prop"}, name : {"Gun"},
     occurrences : {<<<<"1">>>>, <<<<"1">>, <<"2">>>>, <<<<"unknown">>>>}]
JobElementLists == UNION {[1..k -> JobElements] : k \in 0..MaxJobElements}

\* What the job finds: the script and breakdown documents, the script's
\* metadata and format, what parser.parse returns for its file and what
\* extract_elements returns for that.
JobInputs ==
    [script_found : BOOLEAN, breakdown_found : BOOLEAN, parsed : BOOLEAN,
     format : {"fountain", "pdf"},
     scenes : JobSceneLists,
     characters : JobCharacterLists,
     elements : JobElementLists]

\* ScriptBreakdown(...) as analyze_script creates it
NewBreakdown ==
    [progress |-> 0, is_complete |-> FALSE, scene_count |-> 0, error |-> None]

JobInit ==
    /\ job_input \in JobInputs
    /\ breakdown = NewBreakdown
    /\ job_pc = "get_script"
    /\ job_run = 1
    /\ job_raised = FALSE
    /\ progress_log = <<>>
    /\ db_scenes = <<>>
    /\ db_characters = <<>>
    /\ db_elements = <<>>
    /\ db_first_run = None

\* breakdown.update({"$set": {"progress": p}})
SetProgress(b, p) == [b EXCEPT !.progress = p]

\* The mutant: the error update leaves the progress as it is.
ErrorUpdate_KeepsProgress(b, message) ==
    [b EXCEPT !.is_complete = FALSE, !.error = Some(message)]

\* The update of an error return and of the except handler.
ErrorUpdate(b, message) ==
    [b EXCEPT !.progress = 0, !.is_complete = FALSE, !.error = Some(message)]

\* The mutant: the last update sets the flag and leaves the progress.
FinalizeUpdate_KeepsProgress(b) == [b EXCEPT !.is_complete = TRUE]

\* The last update of the job.
FinalizeUpdate(b) == [b EXCEPT !.progress = 10, !.is_complete = TRUE]

JobFrame == UNCHANGED <<job_input, job_run, job_raised, db_first_run>>
DbFrame == UNCHANGED <<db_scenes, db_characters, db_elements>>

\* script = await Script.get(script_id)
GetScript ==
    /\ UNCHANGED nonJobVars
    /\ job_pc = "get_script"
    /\ job_pc' = IF job_input.script_found THEN "get_breakdown" ELSE "returned"
    /\ UNCHANGED <<breakdown, progress_log>>
    /\ JobFrame /\ DbFrame

\* breakdown = await ScriptBreakdown.get(breakdown_id)
GetBreakdown ==
    /\ UNCHANGED nonJobVars
    /\ job_pc = "get_breakdown"
    /\ job_pc' = IF job_input.breakdown_found THEN "progress_01" ELSE "returned"
    /\ UNCHANGED <<breakdown, progress_log>>
    /\ JobFrame /\ DbFrame

Progress01 ==
    /\ UNCHANGED nonJobVars
    /\ job_pc = "progress_01"
    /\ breakdown' = SetProgress(breakdown, 1)
    /\ progress_log' = Append(progress_log, 1)
    /\ job_pc' = "check_parsed"
    /\ JobFrame /\ DbFrame

\* if not script.metadata.get("parsed"): the error is recorded and the job returns
CheckParsed ==
    /\ UNCHANGED nonJobVars
    /\ job_pc = "check_parsed"
    /\ IF job_input.parsed
       THEN /\ job_pc' = "check_format"
            /\ UNCHANGED <<breakdown, progress_log>>
       ELSE /\ breakdown' = ErrorUpdate(breakdown, "not parsed")
            /\ progress_log' = Append(progress_log, 0)
            /\ job_pc' = "returned"
    /\ JobFrame /\ DbFrame

\* if script.format == "fountain" ... else: the error is recorded
CheckFormat ==
    /\ UNCHANGED nonJobVars
    /\ job_pc = "check_format"
    /\ IF job_input.format = "fountain"
       THEN /\ job_pc' = "parse"
            /\ UNCHANGED <<breakdown, progress_log>>
       ELSE /\ breakdown' = ErrorUpdate(breakdown, "unsupported format")
            /\ progress_log' = Append(progress_log, 0)
            /\ job_pc' = "returned"
    /\ JobFrame /\ DbFrame

\* parsed_data = await parser.parse(script.file_path)
ParseScript ==
    /\ UNCHANGED nonJobVars
    /\ job_pc = "parse"
    /\ job_pc' = "progress_03"
    /\ UNCHANGED <<breakdown, progress_log>>
    /\ JobFrame /\ DbFrame

Progress03 ==
    /\ UNCHANGED nonJobVars
    /\ job_pc = "progress_03"
    /\ breakdown' = SetProgress(breakdown, 3)
    /\ progress_log' = Append(progress_log, 3)
    /\ job_pc' = "store_scenes"
    /\ JobFrame /\ DbFrame

\* The scenes collection after the store loop over the first n scenes: a
\* scene is inserted when find_one finds none with its number.
RECURSIVE StoredScenes(_, _, _)
StoredScenes(db, scene_list, n) ==
    IF n = 0 THEN db
    ELSE LET before == StoredScenes(db, scene_list, n - 1)
         IN  IF \E k \in 1..Len(before) : before[k].scene_number = scene_list[n]
             THEN before
             ELSE Append(before, [scene_number |-> scene_list[n]])

\* the loop "Store scenes"; an exception in it leaves the scenes stored so far
StoreScenes ==
    /\ UNCHANGED nonJobVars
    /\ job_pc = "store_scenes"
    /\ \E n \in 0..Len(job_input.scenes) :
        /\ db_scenes' = StoredScenes(db_scenes, job_input.scenes, n)
        /\ IF n = Len(job_input.scenes)
           THEN job_pc' = "progress_05" /\ UNCHANGED job_raised
           ELSE job_pc' = "handler" /\ job_raised' = TRUE
    /\ UNCHANGED <<breakdown, progress_log, db_characters, db_elements,
                   job_input, job_run, db_first_run>>

Progress05 ==
    /\ UNCHANGED nonJobVars
    /\ job_pc = "progress_05"
    /\ breakdown' = [SetProgress(breakdown, 5) EXCEPT
                        !.scene_count = Len(job_input.scenes)]
    /\ progress_log' = Append(progress_log, 5)
    /\ job_pc' = "extract"
    /\ JobFrame /\ DbFrame

\* extracted_elements = await element_extractor.extract_elements(parsed_data)
ExtractElements ==
    /\ UNCHANGED nonJobVars
    /\ job_pc = "extract"
    /\ job_pc' = "progress_07"
    /\ UNCHANGED <<breakdown, progress_log>>
    /\ JobFrame /\ DbFrame

Progress07 ==
    /\ UNCHANGED nonJobVars
    /\ job_pc = "progress_07"
    /\ breakdown' = SetProgress(breakdown, 7)
    /\ progress_log' = Append(progress_log, 7)
    /\ job_pc' = "store_elements"
    /\ JobFrame /\ DbFrame

\* The characters collection after the store loop: find_one, then insert.
RECURSIVE StoredCharacters(_, _, _)
StoredCharacters(db, names, n) ==
    IF n = 0 THEN db
    ELSE LET before == StoredCharacters(db, names, n - 1)
         IN  IF \E k \in 1..Len(before) : before[k].name = names[n]
             THEN before
             ELSE Append(before, [name |-> names[n]])

\* The SceneElement records of one element: one per occurrence that is not
\* "unknown", inserted without a lookup.
RECURSIVE ElementRecords(_, _)
ElementRecords(element, n) ==
    IF n = 0 THEN <<>>
    ELSE LET scene_num == element.occurrences[n]
         IN  ElementRecords(element, n - 1) \o
             (IF scene_num # <<"unknown">>
              THEN <<[scene_number |-> scene_num,
                      element_type |-> element.element_type,
                      name |-> element.name]>>
              ELSE <<>>)

RECURSIVE StoredElements(_, _, _)
StoredElements(db, element_list, n) ==
    IF n = 0 THEN db
    ELSE StoredElements(db, element_list, n - 1)
         \o ElementRecords(element_list[n], Len(element_list[n].occurrences))

\* the loop "Store elements": the characters, then the other types; an
\* exception leaves what was stored before it
StoreElements ==
    /\ UNCHANGED nonJobVars
    /\ job_pc = "store_elements"
    /\ \E c \in 0..Len(job_input.characters), n \in 0..Len(job_input.elements) :
        /\ n > 0 => c = Len(job_input.characters)
        /\ db_characters' = StoredCharacters(db_characters, job_input.characters, c)
        /\ db_elements' = StoredElements(db_elements, job_input.elements, n)
        /\ IF c = Len(job_input.characters) /\ n = Len(job_input.elements)
           THEN job_pc' = "finalize" /\ UNCHANGED job_raised
           ELSE job_pc' = "handler" /\ job_raised' = TRUE
    /\ UNCHANGED <<breakdown, progress_log, db_scenes, job_input, job_run,
                   db_first_run>>

\* "Finalize breakdown"
Finalize ==
    /\ UNCHANGED nonJobVars
    /\ job_pc = "finalize"
    /\ breakdown' = FinalizeUpdate(breakdown)
    /\ progress_log' = Append(progress_log, 10)
    /\ job_pc' = "done"
    /\ db_first_run' =
         IF job_run = 1
         THEN Some([scenes |-> db_scenes, characters |-> db_characters,
                    elements |-> db_elements])
         ELSE db_first_run
    /\ UNCHANGED <<job_input, job_run, job_raised>>
    /\ DbFrame

AwaitSteps ==
    {"get_script", "get_breakdown", "progress_01", "check_parsed", "parse",
     "progress_03", "progress_05", "extract", "progress_07", "finalize"}

\* an await of the job raises before its effect; at the format check only
\* the error update of line 377 is awaited
StepRaises ==
    /\ UNCHANGED nonJobVars
    /\ \/ job_pc \in AwaitSteps
       \/ job_pc = "check_format" /\ job_input.format # "fountain"
    /\ job_pc' = "handler"
    /\ job_raised' = TRUE
    /\ UNCHANGED <<breakdown, progress_log, job_input, job_run, db_first_run>>
    /\ DbFrame

\* except Exception: ScriptBreakdown.get(breakdown_id).update(...) inside its
\* own try.  Document.get is a coroutine function of the ODM (it is awaited
\* at lines 346 and 351); its result is not awaited here, so the update
\* either goes through or raises, and what it raises is only logged.
HandleError ==
    /\ UNCHANGED nonJobVars
    /\ job_pc = "handler"
    /\ \E update_raises \in BOOLEAN :
        IF update_raises \/ ~job_input.breakdown_found
        THEN UNCHANGED breakdown
        ELSE breakdown' = ErrorUpdate(breakdown, "exception")
    /\ job_pc' = "failed"
    /\ UNCHANGED progress_log
    /\ JobFrame /\ DbFrame

\* analyze_script for a script whose breakdown exists: the progress is reset
\* and the job is started again
Reanalyze ==
    /\ UNCHANGED nonJobVars
    /\ job_pc \in {"done", "failed", "returned"}
    /\ job_run = 1
    /\ job_input.script_found /\ job_input.breakdown_found
    /\ breakdown' = [breakdown EXCEPT !.progress = 0, !.is_complete = FALSE]
    /\ job_run' = 2
    /\ job_raised' = FALSE
    /\ progress_log' = <<>>
    /\ job_pc' = "get_script"
    /\ UNCHANGED <<job_input, db_first_run>>
    /\ DbFrame

JobIdle ==
    /\ job_input = <<>> /\ breakdown = <<>> /\ job_pc = "idle" /\ job_run = 0
    /\ job_raised = FALSE /\ progress_log = <<>>
    /\ db_scenes = <<>> /\ db_characters = <<>> /\ db_elements = <<>>
    /\ db_first_run = <<>>

JobNext ==
    \/ GetScript
    \/ GetBreakdown
    \/ Progress01
    \/ CheckParsed
    \/ CheckFormat
    \/ ParseScript
    \/ Progress03
    \/ StoreScenes
    \/ Progress05
    \/ ExtractElements
    \/ Progress07
    \/ StoreElements
    \/ Finalize
    \/ StepRaises
    \/ HandleError
    \/ Reanalyze

-----------------------------------------------------------------------------
(* ScriptParserBase.calculate_file_hash.  hashlib.md5 is a function of the  *)
(* bytes fed to it, from byte strings of any length to 128-bit digests;     *)
(* md5_of is that function on the contents in play.                         *)

MaxBytes == 3
\* stands for the 4096 bytes of one f.read
ChunkBytes == 2

Bytes == {0, 1}
Contents == UNION {[1..k -> Bytes] : k \in 0..MaxBytes}
Digests == {"d1", "d2"}
Paths == {"a.fountain", "b.txt"}

\* md5_hash.hexdigest() after the bytes fed; d0 is the digest of a byte
\* string that is none of the contents in play
hexdigest(fed) == IF fed \in DOMAIN md5_of THEN md5_of[fed] ELSE "d0"

\* The mutant: a read that comes back short ends the loop and is not hashed.
read_DropsShortChunk(content, pos) ==
    IF pos + ChunkBytes <= Len(content)
    THEN SubSeq(content, pos + 1, pos + ChunkBytes)
    ELSE <<>>

\* f.read(4096) at offset pos
read(content, pos) ==
    SubSeq(content, pos + 1, Min2(pos + ChunkBytes, Len(content)))

HashInit ==
    /\ hash_files \in [Paths -> Contents]
    /\ md5_of \in [{hash_files[p] : p \in Paths} -> Digests]
    /\ hash_open = None
    /\ hash_pos = 0
    /\ hash_fed = <<>>
    /\ hash_result = <<>>

\* md5_hash = hashlib.md5(); open(file_path, "rb")
HashOpen ==
    /\ UNCHANGED nonHashVars
    /\ hash_open = None
    /\ \E p \in Paths \ DOMAIN hash_result :
        hash_open' = Some(p)
    /\ hash_pos' = 0
    /\ hash_fed' = <<>>
    /\ UNCHANGED <<hash_files, md5_of, hash_result>>

\* one turn of the loop: a chunk that is not empty is fed to the hash
HashUpdate ==
    /\ UNCHANGED nonHashVars
    /\ hash_open # None
    /\ LET chunk == read(hash_files[hash_open[1]], hash_pos)
       IN  /\ chunk # <<>>
           /\ hash_fed' = hash_fed \o chunk
           /\ hash_pos' = hash_pos + Len(chunk)
    /\ UNCHANGED <<hash_files, md5_of, hash_open, hash_result>>

\* the read returns b"": the loop ends and the hex digest is returned
HashReturn ==
    /\ UNCHANGED nonHashVars
    /\ hash_open # None
    /\ read(hash_files[hash_open[1]], hash_pos) = <<>>
    /\ hash_result' = [p \in DOMAIN hash_result \cup {hash_open[1]} |->
                        IF p = hash_open[1] THEN hexdigest(hash_fed)
                        ELSE hash_result[p]]
    /\ hash_open' = None
    /\ UNCHANGED <<hash_files, md5_of, hash_pos, hash_fed>>

HashIdle ==
    /\ hash_files = <<>> /\ hash_open = None /\ hash_pos = 0
    /\ hash_fed = <<>> /\ hash_result = <<>>

DigestIdle == md5_of = <<>>

HashNext ==
    \/ HashOpen
    \/ HashUpdate
    \/ HashReturn

-----------------------------------------------------------------------------
(* create_script: concurrent upload requests.  The steps of a request are   *)
(* separated by its awaits (file.read, find_one, insert).                   *)

MaxUploads == 2

UploadContents == {<<0>>, <<1>>}
Productions == {"P1", "P2"}
Requests == 1..MaxUploads

UploadInit ==
    /\ upload \in [Requests -> [content : UploadContents, production_id : Productions]]
    /\ md5_of \in [UploadContents -> Digests]
    /\ up_pc = [r \in Requests |-> "read"]
    /\ up_existing = [r \in Requests |-> <<>>]
    /\ disk = {}
    /\ db_scripts = <<>>

\* the chunks are read, the file is written and hashed
SaveUpload(r) ==
    /\ UNCHANGED nonUploadVars
    /\ up_pc[r] = "read"
    /\ disk' = disk \cup {r}
    /\ up_pc' = [up_pc EXCEPT ![r] = "find"]
    /\ UNCHANGED <<upload, up_existing, db_scripts>>

\* Script.find_one({"content_hash": ..., "production_id": ...}): the scripts
\* stored at the time of the query
ExistingScripts(r) ==
    {k \in 1..Len(db_scripts) :
        /\ db_scripts[k].content_hash = hexdigest(upload[r].content)
        /\ db_scripts[k].production_id = upload[r].production_id}

FindExisting(r) ==
    /\ UNCHANGED nonUploadVars
    /\ up_pc[r] = "find"
    /\ up_existing' = [up_existing EXCEPT ![r] =
                        IF ExistingScripts(r) # {}
                        THEN <<SetMin(ExistingScripts(r))>> ELSE <<>>]
    /\ up_pc' = [up_pc EXCEPT ![r] = "found"]
    /\ UNCHANGED <<upload, disk, db_scripts>>

\* if existing_script: the file is removed and 409 is raised
RejectDuplicate(r) ==
    /\ UNCHANGED nonUploadVars
    /\ up_pc[r] = "found"
    /\ up_existing[r] # <<>>
    /\ disk' = disk \ {r}
    /\ up_pc' = [up_pc EXCEPT ![r] = "conflict"]
    /\ UNCHANGED <<upload, up_existing, db_scripts>>

\* await script.insert()
InsertScript(r) ==
    /\ UNCHANGED nonUploadVars
    /\ up_pc[r] = "found"
    /\ up_existing[r] = <<>>
    /\ db_scripts' = Append(db_scripts,
                        [content_hash |-> hexdigest(upload[r].content),
                         production_id |-> upload[r].production_id,
                         request |-> r])
    /\ up_pc' = [up_pc EXCEPT ![r] = "created"]
    /\ UNCHANGED <<upload, up_existing, disk>>

UploadIdle ==
    /\ upload = <<>> /\ up_pc = <<>> /\ up_existing = <<>>
    /\ disk = {} /\ db_scripts = <<>>

UploadNext ==
    \/ \E r \in Requests : SaveUpload(r)
    \/ \E r \in Requests : FindExisting(r)
    \/ \E r \in Requests : RejectDuplicate(r)
    \/ \E r \in Requests : InsertScript(r)

-----------------------------------------------------------------------------
(* The NLP model of ElementExtractor in one process.  nlp_loads counts the  *)
(* calls of spacy.load; an extractor's nlp is the number of the load that   *)
(* produced its model.                                                      *)

MaxExtractors == 3
MaxExtractions == 2

\* ElementExtractor.__init__
NewExtractor == [is_initialized |-> FALSE, nlp |-> None, extractions |-> 0]

\* ElementExtractor.initialize on an extractor, given the loads so far:
\* [extractor, loads]
initialize(extractor, loads) ==
    IF ~extractor.is_initialized
    THEN [extractor |-> [extractor EXCEPT !.is_initialized = TRUE,
                                          !.nlp = Some(loads + 1)],
          loads |-> loads + 1]
    ELSE [extractor |-> extractor, loads |-> loads]

NlpInit ==
    /\ extractors = <<>>
    /\ nlp_loads = 0

\* extractor = ElementExtractor(), up to the await that follows it
Construct ==
    /\ UNCHANGED nonNlpVars
    /\ Len(extractors) < MaxExtractors
    /\ extractors' = Append(extractors, NewExtractor)
    /\ UNCHANGED nlp_loads

\* get_element_extractor, the dependency of an API request
GetElementExtractor ==
    /\ UNCHANGED nonNlpVars
    /\ Len(extractors) < MaxExtractors
    /\ LET r == initialize(NewExtractor, nlp_loads)
       IN  /\ extractors' = Append(extractors, r.extractor)
           /\ nlp_loads' = r.loads

\* await extractor.initialize()
Initialize ==
    /\ UNCHANGED nonNlpVars
    /\ \E k \in 1..Len(extractors) :
        LET r == initialize(extractors[k], nlp_loads)
        IN  /\ extractors' = [extractors EXCEPT ![k] = r.extractor]
            /\ nlp_loads' = r.loads
            /\ extractors' # extractors

\* await extractor.extract_elements(...): initialize, then self.nlp is used
ExtractWithModel ==
    /\ UNCHANGED nonNlpVars
    /\ \E k \in 1..Len(extractors) :
        LET r == initialize(extractors[k], nlp_loads)
        IN  /\ extractors[k].extractions < MaxExtractions
            /\ extractors' = [extractors EXCEPT
                                ![k] = [r.extractor EXCEPT !.extractions = @ + 1]]
            /\ nlp_loads' = r.loads

NlpIdle == extractors = <<>> /\ nlp_loads = 0

NlpNext ==
    \/ Construct
    \/ GetElementExtractor
    \/ Initialize
    \/ ExtractWithModel

-----------------------------------------------------------------------------
(* ElementExtractor: the scene a match belongs to.  Scene k has scene       *)
(* number str(k); its action text is a string over ActionChars, the        *)
(* concatenated text puts "\n" after every non-empty action text, and      *)
(* offsets count from 0.                                                   *)

MaxSpanScenes == 2
MaxActionChars == 2

ActionChars == {"a", "b"}
ActionStrings == UNION {[1..k -> ActionChars] : k \in 0..MaxActionChars}
SpanSceneActions == UNION {[1..n -> ActionStrings] : n \in 1..MaxSpanScenes}

\* extract_elements, lines 86-94: all_action_text after the scenes up to k
RECURSIVE all_action_text(_, _)
all_action_text(acts, k) ==
    IF k = 0 THEN <<>>
    ELSE all_action_text(acts, k - 1)
            \o (IF acts[k] # <<>> THEN acts[k] \o <<"\n">> ELSE <<>>)

\* lines 86-94: scene_action_map after the scenes up to k, as the sequence of
\* its items; assigning to a key that is there keeps its place and replaces
\* its value
RECURSIVE scene_action_map(_, _)
scene_action_map(acts, k) ==
    IF k = 0 THEN <<>>
    ELSE LET map == scene_action_map(acts, k - 1)
             item == [section_text |-> acts[k], scene_num |-> str(k)]
         IN  IF acts[k] = <<>> THEN map
             ELSE IF \E j \in 1..Len(map) : map[j].section_text = acts[k]
             THEN [j \in 1..Len(map) |->
                    IF map[j].section_text = acts[k] THEN item ELSE map[j]]
             ELSE Append(map, item)

\* str.find: the lowest offset at which sub occurs in text, or -1
find(text, sub) ==
    LET at == {p \in 0..(Len(text) - Len(sub)) :
                    SubSeq(text, p + 1, p + Len(sub)) = sub}
    IN  IF at = {} THEN -1 ELSE SetMin(at)

\* lines 305-314: the scene numbers of the first n items that the span overlaps
RECURSIVE matching_scenes(_, _, _, _, _)
matching_scenes(start_pos, end_pos, text, map, n) ==
    IF n = 0 THEN <<>>
    ELSE LET before == matching_scenes(start_pos, end_pos, text, map, n - 1)
             section_start == find(text, map[n].section_text)
             section_end == section_start + Len(map[n].section_text)
         IN  IF section_start = -1 THEN before
             ELSE IF ~(end_pos < section_start \/ start_pos > section_end)
             THEN Append(before, map[n].scene_num)
             ELSE before

find_scenes_for_span(start_pos, end_pos, text, map) ==
    LET found == matching_scenes(start_pos, end_pos, text, map, Len(map))
    IN  IF found # <<>> THEN found ELSE <<<<"unknown">>>>

\* The matches: one character of some scene's action text, match.span() =
\* (start, start + 1).
SpanInit ==
    /\ span_actions \in SpanSceneActions
    /\ span_match \in
        {[start |-> p, end |-> p + 1] :
            p \in {q \in 0..(MaxSpanScenes * (MaxActionChars + 1)) :
                    /\ q < Len(all_action_text(span_actions, Len(span_actions)))
                    /\ all_action_text(span_actions, Len(span_actions))[q + 1] # "\n"}}
    /\ span_out = None

\* scene_nums = self._find_scenes_for_span(match.span(), text, scene_map)
FindScenesForSpan ==
    /\ UNCHANGED nonSpanVars
    /\ span_out = None
    /\ span_out' = Some(find_scenes_for_span(span_match.start, span_match.end,
                        all_action_text(span_actions, Len(span_actions)),
                        scene_action_map(span_actions, Len(span_actions))))
    /\ UNCHANGED <<span_actions, span_match>>

SpanIdle == span_actions = <<>> /\ span_match = <<>> /\ span_out = <<>>

SpanNext == FindScenesForSpan

-----------------------------------------------------------------------------
(* create_breakdown and analyze_script requests for one script, and the    *)
(* background jobs they start.  A request's steps are separated by its     *)
(* awaits; its job runs after the response, interleaved with the other     *)
(* requests and jobs.  Of the job only the updates of the breakdown are    *)
(* kept, for a parsed Fountain script and with no await raising.           *)

MaxRequests == 2

BreakdownRequests == 1..MaxRequests
RequestKinds == {"create_breakdown", "analyze_script"}

\* the progress updates of the job before its last update, in tenths
JobProgressUpdates == <<1, 3, 5, 7>>

RequestInit ==
    /\ rq_kind \in [BreakdownRequests -> RequestKinds]
    /\ rq_pc = [r \in BreakdownRequests |-> "find"]
    /\ rq_existing = [r \in BreakdownRequests |-> 0]
    /\ rq_breakdown = [r \in BreakdownRequests |-> 0]
    /\ rq_updates = [r \in BreakdownRequests |-> 0]
    /\ breakdowns = <<>>

\* ScriptBreakdown.find_one({"script_id": ...}): the first breakdown of the
\* script, 0 for none
FindBreakdown(r) ==
    /\ UNCHANGED nonRequestVars
    /\ rq_pc[r] = "find"
    /\ rq_existing' = [rq_existing EXCEPT ![r] = IF breakdowns = <<>> THEN 0 ELSE 1]
    /\ rq_pc' = [rq_pc EXCEPT ![r] = "found"]
    /\ UNCHANGED <<rq_kind, rq_breakdown, rq_updates, breakdowns>>

\* create_breakdown: if existing_breakdown: 409
RejectExisting(r) ==
    /\ UNCHANGED nonRequestVars
    /\ rq_pc[r] = "found"
    /\ rq_kind[r] = "create_breakdown"
    /\ rq_existing[r] # 0
    /\ rq_pc' = [rq_pc EXCEPT ![r] = "conflict"]
    /\ UNCHANGED <<rq_kind, rq_existing, rq_breakdown, rq_updates, breakdowns>>

\* await breakdown.insert(), and the job is added for the new breakdown
InsertBreakdown(r) ==
    /\ UNCHANGED nonRequestVars
    /\ rq_pc[r] = "found"
    /\ rq_existing[r] = 0
    /\ breakdowns' = Append(breakdowns, NewBreakdown)
    /\ rq_breakdown' = [rq_breakdown EXCEPT ![r] = Len(breakdowns) + 1]
    /\ rq_pc' = [rq_pc EXCEPT ![r] = "job"]
    /\ UNCHANGED <<rq_kind, rq_existing, rq_updates>>

\* analyze_script: "Reset progress if reanalyzing", and the job is added for
\* the breakdown found
ResetProgress(r) ==
    /\ UNCHANGED nonRequestVars
    /\ rq_pc[r] = "found"
    /\ rq_kind[r] = "analyze_script"
    /\ rq_existing[r] # 0
    /\ breakdowns' = [breakdowns EXCEPT ![rq_existing[r]] =
                        [@ EXCEPT !.progress = 0, !.is_complete = FALSE]]
    /\ rq_breakdown' = [rq_breakdown EXCEPT ![r] = rq_existing[r]]
    /\ rq_pc' = [rq_pc EXCEPT ![r] = "job"]
    /\ UNCHANGED <<rq_kind, rq_existing, rq_updates>>

\* the next progress update of the job of request r
JobProgress(r) ==
    /\ UNCHANGED nonRequestVars
    /\ rq_pc[r] = "job"
    /\ rq_updates[r] < Len(JobProgressUpdates)
    /\ breakdowns' = [breakdowns EXCEPT ![rq_breakdown[r]] =
                        SetProgress(@, JobProgressUpdates[rq_updates[r] + 1])]
    /\ rq_updates' = [rq_updates EXCEPT ![r] = @ + 1]
    /\ UNCHANGED <<rq_kind, rq_pc, rq_existing, rq_breakdown>>

\* "Finalize breakdown" of the job of request r
JobFinalize(r) ==
    /\ UNCHANGED nonRequestVars
    /\ rq_pc[r] = "job"
    /\ rq_updates[r] = Len(JobProgressUpdates)
    /\ breakdowns' = [breakdowns EXCEPT ![rq_breakdown[r]] = FinalizeUpdate(@)]
    /\ rq_pc' = [rq_pc EXCEPT ![r] = "done"]
    /\ UNCHANGED <<rq_kind, rq_existing, rq_breakdown, rq_updates>>

RequestIdle ==
    /\ rq_kind = <<>> /\ rq_pc = <<>> /\ rq_existing = <<>>
    /\ rq_breakdown = <<>> /\ rq_updates = <<>> /\ breakdowns = <<>>

RequestNext ==
    \/ \E r \in BreakdownRequests : FindBreakdown(r)
    \/ \E r \in BreakdownRequests : RejectExisting(r)
    \/ \E r \in BreakdownRequests : InsertBreakdown(r)
    \/ \E r \in BreakdownRequests : ResetProgress(r)
    \/ \E r \in BreakdownRequests : JobProgress(r)
    \/ \E r \in BreakdownRequests : JobFinalize(r)

-----
(* The specifications *)

InitHeading ==
    /\ HeadingInit
    /\ ParserIdle /\ AnalysisIdle /\ ScoreIdle /\ DedupIdle /\ JobIdle
    /\ DigestIdle /\ HashIdle /\ UploadIdle /\ NlpIdle /\ SpanIdle /\ RequestIdle
NextHeading == ExtractHeading
SpecHeading == InitHeading /\ [][NextHeading]_vars

InitParse ==
    /\ ParserInit
    /\ HeadingIdle /\ AnalysisIdle /\ ScoreIdle /\ DedupIdle /\ JobIdle
    /\ DigestIdle /\ HashIdle /\ UploadIdle /\ NlpIdle /\ SpanIdle /\ RequestIdle
SpecParse == InitParse /\ [][ParseNext]_vars

InitChar ==
    /\ AnalysisInit
    /\ HeadingIdle /\ ParserIdle /\ ScoreIdle /\ DedupIdle /\ JobIdle
    /\ DigestIdle /\ HashIdle /\ UploadIdle /\ NlpIdle /\ SpanIdle /\ RequestIdle
SpecChar == InitChar /\ [][AnalysisNext]_vars

InitScore ==
    /\ ScoreInit
    /\ HeadingIdle /\ ParserIdle /\ AnalysisIdle /\ DedupIdle /\ JobIdle
    /\ DigestIdle /\ HashIdle /\ UploadIdle /\ NlpIdle /\ SpanIdle /\ RequestIdle
SpecScore == InitScore /\ [][ScoreNext]_vars

InitDedup ==
    /\ DedupInit
    /\ HeadingIdle /\ ParserIdle /\ AnalysisIdle /\ ScoreIdle /\ JobIdle
    /\ DigestIdle /\ HashIdle /\ UploadIdle /\ NlpIdle /\ SpanIdle /\ RequestIdle
SpecDedup == InitDedup /\ [][DedupNext]_vars

InitJob ==
    /\ JobInit
    /\ HeadingIdle /\ ParserIdle /\ AnalysisIdle /\ ScoreIdle /\ DedupIdle
    /\ DigestIdle /\ HashIdle /\ UploadIdle /\ NlpIdle /\ SpanIdle /\ RequestIdle
SpecJob == InitJob /\ [][JobNext]_vars

InitHash ==
    /\ HashInit
    /\ HeadingIdle /\ ParserIdle /\ AnalysisIdle /\ ScoreIdle /\ DedupIdle
    /\ JobIdle /\ UploadIdle /\ NlpIdle /\ SpanIdle /\ RequestIdle
SpecHash == InitHash /\ [][HashNext]_vars

InitUpload ==
    /\ UploadInit
    /\ HeadingIdle /\ ParserIdle /\ AnalysisIdle /\ ScoreIdle /\ DedupIdle
    /\ JobIdle /\ HashIdle /\ NlpIdle /\ SpanIdle /\ RequestIdle
SpecUpload == InitUpload /\ [][UploadNext]_vars

InitNlp ==
    /\ NlpInit
    /\ HeadingIdle /\ ParserIdle /\ AnalysisIdle /\ ScoreIdle /\ DedupIdle
    /\ JobIdle /\ DigestIdle /\ HashIdle /\ UploadIdle /\ SpanIdle /\ RequestIdle
SpecNlp == InitNlp /\ [][NlpNext]_vars

InitSpan ==
    /\ SpanInit
    /\ HeadingIdle /\ ParserIdle /\ AnalysisIdle /\ ScoreIdle /\ DedupIdle
    /\ JobIdle /\ DigestIdle /\ HashIdle /\ UploadIdle /\ NlpIdle /\ RequestIdle
SpecSpan == InitSpan /\ [][SpanNext]_vars

InitRequest ==
    /\ RequestInit
    /\ HeadingIdle /\ ParserIdle /\ AnalysisIdle /\ ScoreIdle /\ DedupIdle
    /\ JobIdle /\ DigestIdle /\ HashIdle /\ UploadIdle /\ NlpIdle
    /\ SpanIdle
SpecRequest == InitRequest /\ [][RequestNext]_vars

-----------------------------------------------------------------------------
(* Properties of FountainParser.parse *)

NoDuplicates(s) == \A h, k \in 1..Len(s) : s[h] = s[k] => h = k

\* The indices of the lines the loop recognises as scene headings.
HeadingLineIdx ==
    {k \in 1..Len(lines) :
        LET l == Strip(lines[k])
        IN  ~IsBlank(l) /\ ~PAGE_BREAK_PATTERN(l) /\ IsSceneHeading(l)}

\* The index of the n-th heading line.
NthHeading(n) ==
    CHOOSE k \in HeadingLineIdx : Cardinality({j \in HeadingLineIdx : j <= k}) = n

\* The number of heading lines up to line k: the scene line k lies in (0: none).
SceneOfLine(k) == Cardinality({j \in HeadingLineIdx : j <= k})

ScenesFollowHeadings ==
    /\ Len(scenes) = Cardinality(HeadingLineIdx)
    /\ \A n \in 1..Len(scenes) :
         scenes[n].slug_line = NewScene(Strip(lines[NthHeading(n)])).slug_line

SceneNumbersUnique ==
    \A a, b \in 1..Len(scenes) :
        a # b => scenes[a].scene_number # scenes[b].scene_number

\* C1: for an input with N lines recognised as scene headings, parse returns
\* exactly N scene records, in the order of the headings, and no two of them
\* have the same scene_number.
C1_OneSceneEachUniqueNumber ==
    parse_done => ScenesFollowHeadings /\ SceneNumbersUnique

SpecExample == <<L_INT_ROOM_DAY, L_JOHN, L_HELLO, L_WALKS>>

\* C2: parsing heading, cue, one dialogue line, action line (the example
\* "INT. ROOM - DAY" / "JOHN" / "Hello there." / "JOHN walks to the door.")
\* gives one scene and one character with dialogue_count 1 and word_count 2;
\* the scene's dialogue list holds one block of that character with exactly
\* the dialogue line, its action list holds the action line, and the action
\* line has closed the block and cleared the in-dialogue flag.
C2_ActionLineClosesDialogue ==
    parse_done /\ lines = SpecExample =>
        /\ Len(scenes) = 1
        /\ Len(characters) = 1
        /\ characters[1].name = L_JOHN
        /\ characters[1].dialogue_count = 1
        /\ characters[1].word_count = 2
        /\ Len(scenes[1].dialogue) = 1
        /\ scenes[1].dialogue[1].character = L_JOHN
        /\ scenes[1].dialogue[1].lines = <<L_HELLO>>
        /\ scenes[1].action = <<L_WALKS>>
        /\ ~in_dialogue
        /\ current_dialogue = None

\* The scenes whose dialogue list holds the block opened by the cue at line k.
ScenesHolding(k) ==
    {n \in 1..Len(scenes) :
        \E d \in 1..Len(scenes[n].dialogue) : scenes[n].dialogue[d].cue_line = k}

\* C3: after parse, every dialogue block opened by a cue inside a scene is in
\* that scene's dialogue list and in no other scene's: it is closed at the
\* latest by the next heading or the end of input, never carried over or lost.
C3_BlockStaysInItsScene ==
    parse_done =>
        \A k \in cue_lines :
            SceneOfLine(k) >= 1 => ScenesHolding(k) = {SceneOfLine(k)}

\* C18: a blank line changes nothing in the parser state (scenes, characters,
\* current scene, current character, open dialogue block, in-dialogue flag,
\* scene counter, page counter); the open block stays open across it, and an
\* all-uppercase line after the blank line is appended to that block as a
\* dialogue line and starts no cue.
C18_BlankLineChangesNothing ==
    [][/\ (InLoop /\ IsBlank(Cur)) =>
            UNCHANGED <<scenes, characters, current_scene, current_character,
                        current_dialogue, in_dialogue, scene_number_counter,
                        page_number, cue_lines>>
       /\ (/\ InLoop /\ i > 1
           /\ IsBlank(Strip(lines[i - 1]))
           /\ in_dialogue /\ CHARACTER_PATTERN(Cur)) =>
            /\ current_dialogue # None
            /\ current_dialogue' =
                    Some([current_dialogue[1] EXCEPT !.lines = Append(@, Cur)])
            /\ in_dialogue'
            /\ cue_lines' = cue_lines
            /\ Len(characters') = Len(characters)
            /\ \A k \in 1..Len(characters) :
                    characters'[k].dialogue_count = characters[k].dialogue_count]_vars

\* cue, blank line, upper-case line: the upper-case line is in the cue's block
C18_Witness ==
    /\ Len(lines) >= 3 /\ i = 4
    /\ lines[1] = L_JOHN /\ lines[2] = L_BLANK /\ lines[3] = L_MARY
    /\ in_dialogue
    /\ current_dialogue # None
    /\ current_dialogue[1].character = L_JOHN
    /\ current_dialogue[1].lines = <<L_MARY>>
    /\ cue_lines = {1}

\* C19: the k-th scene heading (all headings counted) without a #...# marker
\* gets the scene_number str(k); a heading with a marker gets the marker's
\* text as scene_number and no marker is left in its slug line.
C19_SequentialOrExplicitNumber ==
    parse_done =>
        /\ Len(scenes) = Cardinality(HeadingLineIdx)
        /\ \A n \in 1..Len(scenes) :
                LET l == Strip(lines[NthHeading(n)])
                    H == {k \in 1..Len(l) : l[k] = "#"}
                IN  IF SCENE_NUMBER_PATTERN(l) = None
                    THEN scenes[n].scene_number = str(n)
                    ELSE /\ scenes[n].scene_number =
                                SubSeq(l, SetMin(H) + 1, SetMax(H) - 1)
                         /\ \A k \in 1..Len(scenes[n].slug_line) :
                                scenes[n].slug_line[k] # "#"

\* three headings, the second with a marker: numbers 1, the marker's text, 3
C19_Witness ==
    /\ parse_done
    /\ Len(scenes) = 3
    /\ Strip(lines[NthHeading(2)]) = L_FORCED_2
    /\ scenes[1].scene_number = <<"1">>
    /\ scenes[2].scene_number = <<"2">>
    /\ scenes[2].slug_line = <<"ROOM">>
    /\ scenes[3].scene_number = <<"3">>

\* The cue lines of a name.
CuesOf(name) == {c \in cue_lines : Strip(lines[c]) = name}

\* The lines that are dialogue lines of a cue of the name: the lines after the
\* cue, up to the next heading, that are not blank, page breaks or
\* parentheticals.
DialogueLinesOf(name) ==
    {j \in 1..Len(lines) :
        LET l == Strip(lines[j])
        IN  /\ ~IsBlank(l) /\ ~PAGE_BREAK_PATTERN(l) /\ ~PARENTHETICAL_PATTERN(l)
            /\ j \notin HeadingLineIdx /\ j \notin cue_lines
            /\ \E c \in CuesOf(name) :
                    /\ c < j
                    /\ \A h \in (c + 1)..(j - 1) :
                            h \notin HeadingLineIdx /\ h \notin cue_lines}

\* The cue lines of a name that lie in a scene with the given number.
CuesInSceneNumbered(name, number) ==
    {c \in CuesOf(name) :
        SceneOfLine(c) >= 1 /\ scenes[SceneOfLine(c)].scene_number = number}

-----------------------------------------------------------------------------
(* Properties of extract_scene_heading *)

PrefixMarker(tok) ==
    CASE tok = "INT." -> "INT"
      [] tok = "EXT." -> "EXT"
      [] tok = "INT/EXT." -> "INT/EXT"
      [] tok = "I/E." -> "INT/EXT"

\* The line starts with INT., EXT., INT/EXT. or I/E.
HasPrefix(line) ==
    LET l == Strip(line)
    IN  Len(l) > 0 /\ l[1] \in {"INT.", "EXT.", "INT/EXT.", "I/E."}

RECURSIVE JoinDash(_)
JoinDash(parts) ==
    IF Len(parts) = 1 THEN parts[1]
    ELSE parts[1] \o DashSep \o JoinDash(Tail(parts))

\* C9: for a line that starts with INT., EXT., INT/EXT. or I/E., the marker is
\* returned and the rest is split on " - ": the first segment is the
\* location and all the following segments, joined, are the time_of_day;
\* with no separator the whole rest is the location and time_of_day is null.
C9_RestSplitsIntoLocationAndTime ==
    heading_out # None /\ HasPrefix(heading_line) =>
        LET out == heading_out[1]
            rest == Strip(Tail(Strip(heading_line)))
            parts == Split(rest, DashSep)
        IN  /\ out.int_ext = Some(PrefixMarker(Strip(heading_line)[1]))
            /\ IF Len(parts) > 1
               THEN /\ out.location = Some(Strip(parts[1]))
                    /\ out.time_of_day = Some(Strip(JoinDash(Tail(parts))))
               ELSE /\ out.location = Some(rest)
                    /\ out.time_of_day = None

\* C10 as stated: for a line that starts with none of the prefixes, all three
\* outputs are null.
C10_NoPrefixAllNull ==
    heading_out # None /\ ~HasPrefix(heading_line) =>
        /\ heading_out[1].int_ext = None
        /\ heading_out[1].location = None
        /\ heading_out[1].time_of_day = None

\* C10, amended: for a line that starts with none of the prefixes, int_ext is
\* null, location is the first " - " segment of the whole line (the whole
\* line when there is no separator) and time_of_day is the second segment,
\* or null when there is no separator.
C10_NoPrefixNullMarkerOnly ==
    heading_out # None /\ ~HasPrefix(heading_line) =>
        LET out == heading_out[1]
            parts == Split(Strip(heading_line), DashSep)
        IN  /\ out.int_ext = None
            /\ out.location = Some(Strip(parts[1]))
            /\ out.time_of_day =
                 IF Len(parts) > 1 THEN Some(Strip(parts[2])) ELSE None

C10_Witness ==
    /\ heading_out # None
    /\ heading_line = <<"KITCHEN", " ", "-", " ", "NIGHT">>
    /\ heading_out[1].int_ext = None
    /\ heading_out[1].location = Some(<<"KITCHEN">>)
    /\ heading_out[1].time_of_day = Some(<<"NIGHT">>)

\* C4: the relationship matrix that analyze_characters returns is symmetric:
\* whenever it has an entry for (A, B) it has one for (B, A), and the two
\* have the same strength, co_occurrence, dialogue_interaction,
\* relationship_type and shared_scenes.
C4_RelationshipMatrixSymmetric ==
    ca_pc = "done" =>
        \A p \in DOMAIN relationship_matrix :
            LET q == <<p[2], p[1]>> IN
            /\ q \in DOMAIN relationship_matrix
            /\ relationship_matrix[q].strength = relationship_matrix[p].strength
            /\ relationship_matrix[q].co_occurrence = relationship_matrix[p].co_occurrence
            /\ relationship_matrix[q].dialogue_interaction =
                    relationship_matrix[p].dialogue_interaction
            /\ relationship_matrix[q].relationship_type =
                    relationship_matrix[p].relationship_type
            /\ relationship_matrix[q].shared_scenes = relationship_matrix[p].shared_scenes

\* analyze_characters has returned a matrix with an entry for two characters
\* who share a scene and exchange dialogue in it
C4_Witness ==
    /\ ca_pc = "done"
    /\ \E p \in DOMAIN relationship_matrix :
            /\ p[1] # p[2]
            /\ relationship_matrix[p].shared_scenes # {}
            /\ relationship_matrix[p].dialogue_interaction > 0

\* C5: every relationship entry's strength, co_occurrence and
\* dialogue_interaction is within [0,1] (0..100 hundredths), whatever the
\* number and order of the dialogue blocks in the shared scenes.
C5_RelationshipScoresInUnitRange ==
    \A p \in DOMAIN relationship_matrix :
        /\ relationship_matrix[p].strength \in 0..100
        /\ relationship_matrix[p].co_occurrence \in 0..100
        /\ relationship_matrix[p].dialogue_interaction \in 0..100

\* C6: the complexity_score of any scene is within [0,1] (0..100
\* hundredths), with the character factor at most 1 however many characters
\* the scene has; and every importance_score that
\* _calculate_character_importance returns is within [0,1].
C6_ScoresInUnitRange ==
    score_out # None =>
        /\ score_in.kind = "scene" =>
                /\ score_out[1].complexity_score \in 0..100
                /\ RLe(character_factor(score_in.character_count), ROne)
        /\ (score_in.kind = "character" /\ ~score_out[1].raised) =>
                score_out[1].value \in 0..100

\* a scene with 50 characters has been scored
C6_Witness ==
    /\ score_in.kind = "scene"
    /\ score_in.character_count = 50
    /\ score_out # None
    /\ character_factor(score_in.character_count) = ROne
    /\ score_out[1].complexity_score > 0

\* C7: element deduplication is idempotent: _deduplicate_elements applied to
\* its own output returns a list equal to that output, element by element.
C7_DeduplicationIdempotent ==
    Len(dedup_out) = 2 => dedup_out[2] = dedup_out[1]

\* a list in which elements were merged has been deduplicated twice
C7_Witness ==
    /\ Len(dedup_out) = 2
    /\ Len(elements_at_call) > Len(dedup_out[1])
    /\ Len(dedup_out[1]) > 1

\* C8: _deduplicate_elements returns exactly one element per distinct
\* lower-cased name; its occurrences are the duplicate-free union of the
\* occurrences of the input elements of that name, and its context is the
\* longest context among them.
C8_OnePerNameWithOccurrenceUnion ==
    Len(dedup_out) >= 1 =>
        LET out == dedup_out[1]
            inp == elements_at_call
            names == {LowerName(inp[j].name) : j \in 1..Len(inp)}
        IN  /\ Len(out) = Cardinality(names)
            /\ \A nm \in names :
                    Cardinality({k \in 1..Len(out) : LowerName(out[k].name) = nm}) = 1
            /\ \A k \in 1..Len(out) :
                    LET same == {j \in 1..Len(inp) :
                                    LowerName(inp[j].name) = LowerName(out[k].name)}
                    IN  /\ NoDuplicates(out[k].occurrences)
                        /\ SeqToSet(out[k].occurrences) =
                                UNION {SeqToSet(inp[j].occurrences) : j \in same}
                        /\ \A j \in same :
                                Len(ContextOf(out[k])) >= Len(ContextOf(inp[j]))
                        /\ \E j \in same : ContextOf(out[k]) = ContextOf(inp[j])

-----------------------------------------------------------------------------
(* Properties of the breakdown job *)

ProgressCheckpoints == <<1, 3, 5, 7, 10>>

IsPrefix(a, b) == Len(a) <= Len(b) /\ a = SubSeq(b, 1, Len(a))

\* The run found the script, its breakdown, the parsed flag and the Fountain
\* format, and has raised nothing so far.
CleanFountainRun ==
    /\ job_pc # "idle"
    /\ ~job_raised
    /\ job_input.script_found /\ job_input.breakdown_found
    /\ job_input.parsed /\ job_input.format = "fountain"

\* C11: over a run of the job that raises nothing and finds a parsed Fountain
\* script, the progress values written are 0.1, 0.3, 0.5, 0.7, 1.0 in that
\* order (never decreasing, within [0,1]); scene_count is set together with
\* 0.5, and is_complete is true only together with progress 1.0.
C11_ProgressCheckpointsInOrder ==
    CleanFountainRun =>
        /\ IsPrefix(progress_log, ProgressCheckpoints)
        /\ job_pc = "done" => progress_log = ProgressCheckpoints
        /\ \A k \in 1..Len(progress_log) : progress_log[k] \in 0..10
        /\ progress_log # <<>> => breakdown.progress = progress_log[Len(progress_log)]
        /\ Len(progress_log) >= 3 => breakdown.scene_count = Len(job_input.scenes)
        /\ (job_run = 1 /\ Len(progress_log) < 3) => breakdown.scene_count = 0
        /\ breakdown.is_complete <=> progress_log = ProgressCheckpoints
        /\ breakdown.is_complete => breakdown.progress = 10

\* a first run over two scenes has completed
C11_Witness ==
    /\ CleanFountainRun
    /\ job_pc = "done"
    /\ job_run = 1
    /\ Len(job_input.scenes) = 2
    /\ progress_log = ProgressCheckpoints
    /\ breakdown.is_complete
    /\ breakdown.scene_count = 2

\* C12: when a step of the job raises, the breakdown ends with progress 0.0,
\* is_complete false and the error message in summary_statistics.
C12_ExceptionRecordsTerminalState ==
    job_pc = "failed" =>
        /\ breakdown.progress = 0
        /\ ~breakdown.is_complete
        /\ breakdown.error # None

\* C16: re-running the job for a script whose analysis completed leaves the
\* stored Scene, Character and SceneElement records the same set as after
\* the first run, with no two records for the same scene_number or name.
C16_RerunIsIdempotentUpsert ==
    (job_run = 2 /\ job_pc = "done" /\ db_first_run # None) =>
        /\ db_scenes = db_first_run[1].scenes
        /\ db_characters = db_first_run[1].characters
        /\ SeqToSet(db_elements) = SeqToSet(db_first_run[1].elements)
        /\ NoDuplicates(db_scenes)
        /\ NoDuplicates(db_characters)
        /\ NoDuplicates(db_elements)

\* The run found the script and its breakdown, the script's format is not
\* Fountain, and no await has raised so far.
UnsupportedFormatRun ==
    /\ job_pc # "idle"
    /\ ~job_raised
    /\ job_input.script_found /\ job_input.breakdown_found
    /\ job_input.format # "fountain"

\* C27: when the script's format is not Fountain, the job halts without
\* reaching the parser and without raising: it ends with progress 0.0,
\* is_complete false and an error entry (the format error when the script is
\* marked as parsed), and it stores no Scene, Character or SceneElement.
C27_UnsupportedFormatHalts ==
    UnsupportedFormatRun =>
        /\ job_pc \in {"get_script", "get_breakdown", "progress_01",
                       "check_parsed", "check_format", "returned"}
        /\ job_pc = "returned" =>
                /\ breakdown.progress = 0
                /\ ~breakdown.is_complete
                /\ breakdown.error # None
                /\ job_input.parsed => breakdown.error = Some("unsupported format")
                /\ progress_log = <<1, 0>>
        /\ ~breakdown.is_complete
        /\ db_scenes = <<>> /\ db_characters = <<>> /\ db_elements = <<>>

\* the job has returned at the format check of a parsed PDF script that
\* comes with scenes and elements
C27_Witness ==
    /\ UnsupportedFormatRun
    /\ job_input.parsed /\ job_input.format = "pdf"
    /\ job_input.scenes # <<>> /\ job_input.elements # <<>>
    /\ job_pc = "returned"
    /\ breakdown.error = Some("unsupported format")
    /\ breakdown.progress = 0

-----------------------------------------------------------------------------
(* Properties of the upload, the file hash and the NLP model *)

\* C13: for any interleaving of create_script requests, two uploads with
\* byte-identical content in the same production never both end up as stored
\* Script records.
C13_IdenticalUploadsNotBothStored ==
    \A j, k \in 1..Len(db_scripts) :
        (/\ db_scripts[j].production_id = db_scripts[k].production_id
         /\ upload[db_scripts[j].request].content
                = upload[db_scripts[k].request].content)
            => j = k

DiffersInOneByte(a, b) ==
    /\ Len(a) = Len(b)
    /\ Cardinality({k \in 1..Len(a) : a[k] # b[k]}) = 1

C15_ModelLoadedAtMostOnce == nlp_loads <= 1

-----------------------------------------------------------------------------
(* Further properties of FountainParser.parse *)

\* The first line the loop recognises as a scene heading (past the end: none).
FirstHeadingLine ==
    IF HeadingLineIdx = {} THEN Len(lines) + 1 ELSE SetMin(HeadingLineIdx)

\* C21: lines before the first scene heading are attached to no scene; in
\* particular no scene's dialogue list holds a block whose cue stands before
\* the first heading.
C21_TextBeforeFirstHeadingDropped ==
    parse_done =>
        \A n \in 1..Len(scenes) :
            \A d \in 1..Len(scenes[n].dialogue) :
                scenes[n].dialogue[d].cue_line > FirstHeadingLine

\* C22: every line accepted as a heading through the INT/EXT/I-E prefix
\* pattern, in any letter case, gives a scene whose int_ext is not null and
\* whose location no longer starts with the prefix.
C22_PrefixRecognisedInAnyCase ==
    parse_done =>
        \A n \in 1..Len(scenes) :
            (/\ n <= Cardinality(HeadingLineIdx)
             /\ SCENE_HEADING_PATTERN(Strip(lines[NthHeading(n)])))
                => /\ scenes[n].int_ext # None
                   /\ scenes[n].location # None
                   /\ ~SCENE_HEADING_PATTERN(scenes[n].location[1])

\* The scenes of the output and the one still open.
ScenesSoFar ==
    IF current_scene # None /\ ~parse_done
    THEN Append(scenes, current_scene[1]) ELSE scenes

OneCuePerScene ==
    /\ \A n \in 1..Len(ScenesSoFar) : Len(ScenesSoFar[n].characters) <= 1
    /\ \A n \in 1..Len(lines) :
            Cardinality({k \in cue_lines : SceneOfLine(k) = n}) <= 1

\* One step of the loop taken in dialogue mode.
DialogueModeStep ==
    /\ (in_dialogue /\ ~in_dialogue')
            => InLoop /\ ~IsBlank(Cur) /\ ~PAGE_BREAK_PATTERN(Cur) /\ IsSceneHeading(Cur)
    /\ (/\ in_dialogue /\ InLoop /\ i' = i + 1
        /\ ~IsBlank(Cur) /\ ~PAGE_BREAK_PATTERN(Cur) /\ ~IsSceneHeading(Cur))
            => /\ in_dialogue'
               /\ cue_lines' = cue_lines
               /\ current_character' = current_character
               /\ current_dialogue # None /\ current_dialogue' # None
               /\ current_dialogue'[1].character = current_dialogue[1].character
               /\ \/ /\ current_dialogue'[1].lines = Append(current_dialogue[1].lines, Cur)
                     /\ current_dialogue'[1].parentheticals = current_dialogue[1].parentheticals
                  \/ /\ current_dialogue'[1].parentheticals
                            = Append(current_dialogue[1].parentheticals, Cur)
                     /\ current_dialogue'[1].lines = current_dialogue[1].lines

-----------------------------------------------------------------------------
(* Further properties of the element extractor and the character analyzer *)

\* C23: every element returned by extract_elements has an importance within
\* [0,1], whatever the number of scenes it occurs in; here, every element of
\* a list that _deduplicate_elements returns to extract_elements.
C23_ElementImportanceInUnitRange ==
    dedup_out # <<>> =>
        \A k \in 1..Len(dedup_out[1]) :
            /\ RLe(RZero, dedup_out[1][k].importance)
            /\ RLe(dedup_out[1][k].importance, ROne)

\* C24: the importance_score that analyze_characters reports includes the
\* relationship-centrality term: it is the score computed from the record as
\* returned, with r the number of its relationship entries.
C24_ImportanceCountsRelationships ==
    ca_pc = "done" =>
        \A c \in DOMAIN character_analysis :
            character_analysis[c].importance_score
                = ImportanceOf(character_analysis[c]).value

\* C25: when none of a character's scene identifiers is numeric, the
\* name-prominence term of its importance score is 0.5.
C25_NonNumericScenesGiveHalf ==
    (/\ score_out # None
     /\ score_in.kind = "character"
     /\ ~score_out[1].raised
     /\ score_in.scenes # <<>>
     /\ \A k \in 1..Len(score_in.scenes) : ~isdigit(score_in.scenes[k]))
        => NameProminence(score_in.scenes, score_in.total_scenes).value = Rat(1, 2)

\* The offset at which the action text of scene k starts in the concatenated
\* text.
SectionStart(acts, k) == Len(all_action_text(acts, k - 1))

\* The scenes whose action text contains offset p of the concatenated text.
ScenesAtOffset(acts, p) ==
    {k \in 1..Len(acts) :
        SectionStart(acts, k) <= p /\ p < SectionStart(acts, k) + Len(acts[k])}

\* C26: every match found in the concatenated action text is attributed to
\* the scene whose action text contains the match's offset, and to that
\* scene only, also when two scenes have the same action text or one text
\* occurs inside an earlier one.
C26_MatchAttributedToItsScene ==
    span_out # None =>
        \A k \in ScenesAtOffset(span_actions, span_match.start) :
            span_out[1] = <<str(k)>>

-----------------------------------------------------------------------------
(* Properties of concurrent breakdown requests *)

\* C29: in every reachable state of a breakdown record, is_complete = true
\* implies progress = 1.0, also when analyze_script is requested again while
\* an earlier job for the same breakdown is still running.
C29_CompleteImpliesFullProgress ==
    \A k \in 1..Len(breakdowns) :
        breakdowns[k].is_complete => breakdowns[k].progress = 10

\* C30: for any interleaving of create_breakdown and analyze_script requests
\* for the same script, at most one ScriptBreakdown record exists for it.
C30_OneBreakdownPerScript == Len(breakdowns) <= 1

====
